---- MODULE Spec2Model ----
(***************************************************************************)
(* The per-model dedicated-executor dispatch layer of the glowrs embeddings *)
(* server: HTTP handlers look a model up in the model map, enqueue an       *)
(* Append command on that model's unbounded command channel through a       *)
(* Client, and await a single-shot reply; one worker thread per executor    *)
(* drains the channel serially and runs the handler. Also modelled: server  *)
(* start-up (ServerState::new building the model map from the repository    *)
(* strings), the routes that only read the map (model listing, model        *)
(* lookup, health), graceful shutdown, and the library functions that parse *)
(* a repository string and a model configuration, each called on its own.   *)
(*                                                                          *)
(* Modelling assumptions: building the worker's runtime succeeds; a handler *)
(* call ends by returning Ok, returning Err, or panicking (the panic        *)
(* unwinds the worker thread).                                              *)
(* In the proc module a task's process() returns.                           *)
(***************************************************************************)
EXTENDS Integers, Sequences, FiniteSets, TLC

\* ------------------------------------------------------------------ bounds
MaxRequests == 2      \* HTTP embeddings requests over a run
MaxStops == 2         \* Stop commands buffered in one command channel
MaxHandles == 2       \* live sender handles of one command channel
MaxRepos == 2         \* repository strings given to ServerState::new
MaxLexemes == 4       \* lexemes of a repository string parsed on its own
MaxArchs == 2         \* entries of a config's architectures list
MaxBatch == 2         \* sentences of a batch given to the encoder
MaxTokens == 2        \* token ids of one tokenized sentence
MaxWorkers == 2       \* workers of a WorkerPool
MaxTasks == 2         \* tasks made for a Worker or a Queue
MaxCommands == 3      \* commands sent to a Queue before its join

\* ------------------------------------------------------------- program data
ModelNames == {"a", "b"}                \* keys of the model map
UnknownModel == "zzz"                   \* a model name that is no key

\* The executors whose sender handles are cloned, dropped and used to send Stop
\* during a run. Executors share no state: one operated executor beside one
\* that only serves requests shows every combination the two can be in.
Operated == {"a"}
RequestIds == 1 .. MaxRequests

\* Sentences: Single(String) | Multiple(Vec<String>)
Single(s) == [kind |-> "Single", s |-> s]
Multiple(v) == [kind |-> "Multiple", vec |-> v]
Inputs == {Single("hello"), Multiple(<<"a", "b">>)}

\* From<Sentences> for Vec<String>
SentencesToVec(sentences) ==
    IF sentences.kind = "Single" THEN <<sentences.s>> ELSE sentences.vec

\* EmbeddingsRequest (the fields the dispatch layer reads)
EmbeddingsRequest(input, model) == [input |-> input, model |-> model]
NoRequest == [input |-> Multiple(<<>>), model |-> ""]

\* The request bodies clients post in a run: both input shapes to one model,
\* a request to the other model, and a request naming no key of the map
Posted ==
    {EmbeddingsRequest(input, "a") : input \in Inputs}
        \cup {EmbeddingsRequest(Single("hello"), "b"),
              EmbeddingsRequest(Single("hello"), UnknownModel)}

\* The row the model computes for one sentence; the tensor runtime is outside
\* the model, so a row is named by the sentence it embeds.
Embedding(sentence) == [of |-> sentence]

\* encode_batch_with_usage: one row per sentence, usage = number of sequences
EncodeBatchWithUsage(sentences) ==
    [embeddings |-> [k \in 1 .. Len(sentences) |-> Embedding(sentences[k])],
     usage |-> [prompt_tokens |-> Len(sentences), total_tokens |-> Len(sentences)]]

\* Mutant: rows are numbered from one
FromEmbeddingsOneBased(embeddings, usage, model) ==
    [object |-> "list",
     data |-> [k \in 1 .. Len(embeddings) |->
                  [object |-> "core", embedding |-> embeddings[k], index |-> k]],
     model |-> model,
     usage |-> usage]

\* EmbeddingsResponse::from_embeddings
FromEmbeddings(embeddings, usage, model) ==
    [object |-> "list",
     data |-> [k \in 1 .. Len(embeddings) |->
                  [object |-> "core", embedding |-> embeddings[k], index |-> k - 1]],
     model |-> model,
     usage |-> usage]

\* EmbeddingsHandler::handle, on success
Handle(request) ==
    LET out == EncodeBatchWithUsage(SentencesToVec(request.input))
    IN  FromEmbeddings(out.embeddings, out.usage, request.model)

NoPayload == [object |-> "none"]

\* ---------------------------------------------------------- HTTP responses
FailedToReceive == "Failed to receive response from executor"
ChannelClosedMsg == "channel closed"    \* Display of tokio's mpsc SendError

StatusOk == 200
StatusBadRequest == 400
StatusNotFound == 404
StatusTooManyRequests == 429
StatusInternalServerError == 500

Response(status, message, payload) ==
    [status |-> status, message |-> message, payload |-> payload]
NoResponse == Response(0, "", NoPayload)

\* Mutant: the InternalError and InferenceError arms are swapped
IntoResponseSwapped(err) ==
    CASE err.kind = "InternalError" -> [status |-> 400, message |-> "", payload |-> NoPayload]
      [] err.kind = "TooManyRequestsError" -> [status |-> 429, message |-> "", payload |-> NoPayload]
      [] err.kind = "InferenceError" -> [status |-> 500, message |-> err.msg, payload |-> NoPayload]
      [] err.kind = "ModelNotFound" -> [status |-> 404, message |-> "", payload |-> NoPayload]

\* ServerError::into_response
IntoResponse(err) ==
    CASE err.kind = "InternalError" -> Response(StatusInternalServerError, err.msg, NoPayload)
      [] err.kind = "TooManyRequestsError" -> Response(StatusTooManyRequests, "", NoPayload)
      [] err.kind = "InferenceError" -> Response(StatusBadRequest, "", NoPayload)
      [] err.kind = "ModelNotFound" -> Response(StatusNotFound, "", NoPayload)

InternalError(msg) == [kind |-> "InternalError", msg |-> msg]
ModelNotFound == [kind |-> "ModelNotFound", msg |-> ""]

\* ------------------------------------------------------ repository strings
\* A repository string is the sequence of its lexemes: a name, the separator,
\* an illegal character. The empty sequence is the empty string.
Colon == ":"
IllegalChars == {"\\", "<", ">", "|", "?", "*"}

\* The repository strings given on the command line in a run
RepoStrings ==
    {<<"a">>, <<"a", ":", "dev">>, <<"b">>, <<"b", ":", ":", "Bert">>,
     <<>>, <<"a", "?">>, <<"b", ":", "main", ":", "gpt">>}

\* Result<T>
Ok(value) == [ok |-> TRUE, value |-> value]
Err(msg) == [ok |-> FALSE, value |-> msg]

\* Option<T>
Some(e) == [some |-> TRUE, value |-> e]
None == [some |-> FALSE, value |-> ""]
\* None of an Option<T> whose values are not strings (the value field of a
\* None is never read; it holds a value of T so that options compare)
NoneOf(t) == [some |-> FALSE, value |-> t]

\* The names, among those that occur, that contain "jinaai"
JinaaiNames == {"jinaai/jina"}

\* str::split: the pieces of s between the occurrences of sep
RECURSIVE Split(_, _)
Split(s, sep) ==
    IF \A i \in 1 .. Len(s) : s[i] # sep
    THEN <<s>>
    ELSE LET i == CHOOSE n \in 1 .. Len(s) :
                      s[n] = sep /\ \A m \in 1 .. n - 1 : s[m] # sep
         IN  <<SubSeq(s, 1, i - 1)>> \o Split(SubSeq(s, i + 1, Len(s)), sep)

\* The text of a piece that holds at most one name
Text(piece) == IF piece = <<>> THEN "" ELSE piece[1]

\* str::to_lowercase, on the names that occur
ToLowercase(t) ==
    CASE t = "Bert" -> "bert"
      [] t = "JinaBert" -> "jinabert"
      [] OTHER -> t

\* Mutant: only the repository id, the piece before the first colon, is
\* searched for illegal characters
HasIllegalCharsInRepo(repo_string) ==
    \E i \in 1 .. Len(repo_string) :
        /\ repo_string[i] \in IllegalChars
        /\ \A m \in 1 .. i - 1 : repo_string[m] # Colon

\* parse_repo_string: repo_string.chars().any(|c| ILLEGAL_CHARS.contains(&c))
HasIllegalChars(repo_string) ==
    \E i \in 1 .. Len(repo_string) : repo_string[i] \in IllegalChars

\* Mutant: an empty second piece is kept as the revision
RevisionKeepsEmpty(parts) == IF Len(parts) >= 2 THEN Text(parts[2]) ELSE "main"

\* parse_repo_string: the revision is the second piece, "main" when there is
\* none or it is empty
Revision(parts) ==
    IF Len(parts) >= 2 /\ parts[2] # <<>> THEN Text(parts[2]) ELSE "main"

\* parse_repo_string
ParseRepoString(repo_string) ==
    IF repo_string = <<>>
    THEN Err("Model repository string is empty")
    ELSE IF HasIllegalChars(repo_string)
    THEN Err("Model repository string contains illegal characters")
    ELSE LET parts == Split(repo_string, Colon)
             model_repo == Text(parts[1])
             revision == Revision(parts)
         IN  IF Len(parts) < 3
             THEN Ok(<<model_repo, revision,
                       IF model_repo \in JinaaiNames THEN "JinaBert" ELSE "Bert">>)
             ELSE CASE ToLowercase(Text(parts[3])) = "bert" ->
                           Ok(<<model_repo, revision, "Bert">>)
                    [] ToLowercase(Text(parts[3])) = "jinabert" ->
                           Ok(<<model_repo, revision, "JinaBert">>)
                    [] OTHER -> Err("Invalid embedder type")

\* ------------------------------------------------------- ServerState::new
\* Mutant: an insert keeps the entry the key already has
MapInsertKeep(map, key, value) ==
    [k \in DOMAIN map \cup {key} |-> IF k \in DOMAIN map THEN map[k] ELSE value]

\* HashMap::insert, as collect applies it to each pair in turn
MapInsert(map, key, value) ==
    [k \in DOMAIN map \cup {key} |-> IF k = key THEN value ELSE map[k]]

\* Mutant: a repository that fails fails the construction
OnFailureAbort == "abort"

\* The filter_map closure on a failed step: `.ok()?` yields None, the
\* repository is skipped
OnFailure == "skip"

\* The closure of filter_map on the k-th repository: parse the name, load the
\* model (loads[k] tells whether from_repo_string succeeds), spawn the executor
\* (DedicatedExecutor::new returns Ok always) and make its client. The executor
\* is named by k.
Built(model_repos, loads, k) ==
    LET parsed == ParseRepoString(model_repos[k])
    IN  IF parsed.ok /\ loads[k] THEN Some(<<parsed.value[1], k>>) ELSE None

\* The executors the closure spawned
Spawned(model_repos, loads) ==
    {k \in 1 .. Len(model_repos) : Built(model_repos, loads, k).some}

\* collect::<EmbeddingModelMap>() over the pairs from the k-th on
RECURSIVE Collect(_, _, _, _)
Collect(model_repos, loads, k, map) ==
    IF k > Len(model_repos)
    THEN Ok(map)
    ELSE LET built == Built(model_repos, loads, k)
         IN  IF built.some
             THEN Collect(model_repos, loads, k + 1,
                          MapInsert(map, built.value[1], built.value[2]))
             ELSE IF OnFailure = "skip"
             THEN Collect(model_repos, loads, k + 1, map)
             ELSE Err("model failed")

\* ServerState::new: the model map, or the error
ServerStateNew(model_repos, loads) ==
    IF model_repos = <<>>
    THEN Err("No models provided")
    ELSE Collect(model_repos, loads, 1, <<>>)

\* ------------------------------------------------------------------- state
VARIABLES
    boot,        \* ServerState::new: its argument, the outcome of each model
                 \* load, and its result
    serve,       \* main's axum::serve(..).with_graceful_shutdown(..): its state,
                 \* and what the shutdown signal found (the requests then in
                 \* flight, the task id then next)
    libcall,     \* a call of a library function checked on its own: the
                 \* function, its arguments and, once it returned, its result
    proc,        \* a Queue with its WorkerPool, or a Worker, of the proc module
                 \* run on its own: the channels, the threads, the join
    model_map,   \* ServerState.model_map: model name -> executor
    queue,       \* per executor: the commands buffered in its mpsc channel
    handles,     \* per executor: the live holders of its UnboundedSender, the
                 \* Client handles and the DedicatedExecutor handle (its tx)
    worker,      \* per executor: the worker thread's position
    inflight,    \* per executor: handler calls in progress, [id, thread]
    exit,        \* per executor: why the worker left its loop
    nextId,      \* the next request's task id
    requests,    \* per task id: the EmbeddingsRequest
    oneshot,     \* per task id: the single-shot reply channel
    caller,      \* per task id: the HTTP handler task's position
    response,    \* per task id: the HTTP response
    accepted,    \* per executor: task ids in the order their Append was enqueued
    handled,     \* per executor: task ids in the order handle was called
    replied,     \* per executor: task ids in the order response_tx.send was called
    sendSaw      \* per task id: the worker's state as Client::send found it

vars == <<boot, serve, libcall, proc, model_map, queue, handles, worker, inflight,
          exit, nextId, requests, oneshot, caller, response, accepted, handled,
          replied, sendSaw>>

\* Command<THandler>
AppendCmd(id) == [type |-> "Append", id |-> id]
\* Stop carries no data; `before` records, for the properties only, how many
\* Appends the channel had taken when the Stop was sent
StopCmd(before) == [type |-> "Stop", id |-> 0, before |-> before]

\* The OS thread DedicatedExecutor::new spawns for executor e
WorkerThread(e) == <<"worker", e>>

\* oneshot channel states
Chan(state, value) == [state |-> state, value |-> value]
NoChan == Chan("none", NoPayload)

\* No library function is called on its own
NoCall == [fn |-> "none"]

\* No Queue and no Worker of the proc module has been made
NoProc == [kind |-> "none"]

\* axum::serve is accepting connections and no signal has arrived
Serving == [state |-> "serving", pending |-> {}, at |-> 0]
\* main has not reached axum::serve yet
NotServing == [state |-> "none", pending |-> {}, at |-> 0]

\* The listener hands new requests to the router
Accepting == serve.state = "serving"
\* main has not returned: the tasks and the worker threads of the process run
ProcessAlive == serve.state # "returned"

\* The server is serving: ServerState::new has returned Ok with one entry per
\* model, each executor named by the model it serves
Init ==
    /\ proc = NoProc
    /\ boot = [model_repos |-> <<<<"a">>, <<"b">>>>, loads |-> <<TRUE, TRUE>>,
               result |-> "Ok"]
    /\ serve = Serving
    /\ libcall = NoCall
    /\ model_map = [m \in ModelNames |-> m]
    /\ queue = [e \in ModelNames |-> <<>>]
    /\ handles = [e \in ModelNames |-> [clients |-> 1, executors |-> 1]]
    /\ worker = [e \in ModelNames |-> "recv"]
    /\ inflight = [e \in ModelNames |-> {}]
    /\ exit = [e \in ModelNames |-> "none"]
    /\ nextId = 1
    /\ requests = [r \in RequestIds |-> NoRequest]
    /\ oneshot = [r \in RequestIds |-> NoChan]
    /\ caller = [r \in RequestIds |-> "none"]
    /\ response = [r \in RequestIds |-> NoResponse]
    /\ accepted = [e \in ModelNames |-> <<>>]
    /\ handled = [e \in ModelNames |-> <<>>]
    /\ replied = [e \in ModelNames |-> <<>>]
    /\ sendSaw = [r \in RequestIds |-> "unsent"]

\* ------------------------------------------------------ channel primitives
\* Mutant: all executors drain one shared command channel
ReceiverAliveShared(e) == \A x \in ModelNames : worker[x] # "exited"

\* The command channel's receiver lives in queue_task's frame: it exists until
\* the worker thread has left queue_task (returned or unwound).
ReceiverAlive(e) == worker[e] # "exited"

\* The live senders of e's command channel: every Client holds a clone of the
\* tx the DedicatedExecutor holds
Senders(e) == handles[e].clients + handles[e].executors

\* Mutant: the channel never counts as closed
ChannelNeverCloses(e) == FALSE

\* The command channel of e is closed from the sending side: no sender is left
ChannelClosed(e) == Senders(e) = 0

\* Mutant: the command goes to the front of the buffer
EnqueueFront(q, cmd) == <<cmd>> \o q

\* UnboundedSender::send on an open channel: the command goes to the back
Enqueue(q, cmd) == Append(q, cmd)

\* Mutant: recv leaves the command it returned in the buffer
RemainingKeep(q) == q

\* UnboundedReceiver::recv: the command at the front, and what stays buffered
NextCommand(q) == Head(q)
Remaining(q) == Tail(q)

\* Mutant: the sent value is lost
OneshotSendLost(ch, value) == ch

\* oneshot::Sender::send: the value reaches the channel iff the receiver lives
OneshotSend(ch, value) == IF ch.state = "open" THEN Chan("sent", value) ELSE ch

\* Mutant: a dropped sender leaves the channel open
OneshotDropSenderLeak(ch) == ch

\* Dropping a oneshot::Sender that never sent closes the channel
OneshotDropSender(ch) == IF ch.state = "open" THEN Chan("closed", NoPayload) ELSE ch

\* Dropping the oneshot::Receiver (the awaiting task is aborted)
OneshotDropReceiver(ch) == Chan("rx_dropped", NoPayload)

\* Task ids of the Append commands buffered in q
QueuedIds(q) == {q[i].id : i \in {j \in 1 .. Len(q) : q[j].type = "Append"}}

\* ------------------------------------------------------------ HTTP handlers
\* Mutant: send succeeds on a closed channel too
ClientSendAlways(e) == TRUE

\* Mutant: the command channel holds one command and send refuses the next
ClientSendOkBounded(e) == ReceiverAlive(e) /\ Len(queue[e]) < 1

\* Mutant: send still succeeds after the worker left its loop on a Stop
ClientSendOkAfterStop(e) == ReceiverAlive(e) \/ exit[e] = "stop"

\* Client::send: the Result it returns
ClientSendOk(e) == ReceiverAlive(e)

\* The response for a send that failed: generate_embedding's `?` passes the
\* SendError on, and infer_text_embeddings' `?` turns it into InternalError.
SendErrorResponse == IntoResponse(InternalError(ChannelClosedMsg))

\* The response for a reply channel that closed without a value
RecvErrorResponse == IntoResponse(InternalError(FailedToReceive))

\* Mutant: a model that is no key falls back to some entry of the map
ModelMapGetOrAny(map, key) ==
    Some(IF key \in DOMAIN map THEN map[key] ELSE map[CHOOSE k \in DOMAIN map : TRUE])

\* model_map.get(&key)
ModelMapGet(map, key) == IF key \in DOMAIN map THEN Some(map[key]) ELSE None

\* Mutant: the lookup takes the entry out of the map
ModelMapTake(map, key) == [k \in DOMAIN map \ {key} |-> map[k]]

\* The map after model_map.get(&key): the handlers hold the state behind an
\* Arc and get borrows the map immutably
ModelMapAfterGet(map, key) == map

\* infer_text_embeddings up to its first suspension: look the model up, and
\* through EmbeddingsClient::generate_embedding call Client::send.
InferTextEmbeddings(request) ==
    /\ Accepting
    /\ nextId <= MaxRequests
    /\ LET id == nextId
       IN  /\ nextId' = nextId + 1
           /\ requests' = [requests EXCEPT ![id] = request]
           /\ IF ~ModelMapGet(model_map, request.model).some
              THEN /\ response' = [response EXCEPT ![id] = IntoResponse(ModelNotFound)]
                   /\ caller' = [caller EXCEPT ![id] = "done"]
                   /\ UNCHANGED <<queue, oneshot, accepted, sendSaw>>
              ELSE LET e == ModelMapGet(model_map, request.model).value
                   IN  /\ handles[e].clients > 0
                       /\ sendSaw' = [sendSaw EXCEPT ![id] =
                                         IF ReceiverAlive(e) THEN "alive" ELSE exit[e]]
                       /\ IF ClientSendOk(e)
                          THEN /\ queue' = [queue EXCEPT ![e] = Enqueue(@, AppendCmd(id))]
                               /\ oneshot' = [oneshot EXCEPT ![id] = Chan("open", NoPayload)]
                               /\ accepted' = [accepted EXCEPT ![e] = Append(@, id)]
                               /\ caller' = [caller EXCEPT ![id] = "awaiting"]
                               /\ UNCHANGED response
                          ELSE /\ response' = [response EXCEPT ![id] = SendErrorResponse]
                               /\ caller' = [caller EXCEPT ![id] = "done"]
                               /\ UNCHANGED <<queue, oneshot, accepted>>
    /\ model_map' = ModelMapAfterGet(model_map, request.model)
    /\ UNCHANGED <<boot, serve, libcall, handles, worker, inflight, exit,
                   handled, replied, proc>>

\* generate_embedding's `rx.await` resolving, and infer_text_embeddings' return
AwaitReply(id) ==
    /\ ProcessAlive
    /\ caller[id] = "awaiting"
    /\ oneshot[id].state \in {"sent", "closed"}
    /\ response' = [response EXCEPT ![id] =
                       IF oneshot[id].state = "sent"
                       THEN Response(StatusOk, "", oneshot[id].value)
                       ELSE RecvErrorResponse]
    /\ caller' = [caller EXCEPT ![id] = "done"]
    /\ UNCHANGED <<boot, serve, libcall, model_map, queue, handles, worker,
                   inflight, exit, nextId, requests, oneshot, accepted,
                   handled, replied, sendSaw, proc>>

\* The request task is aborted while it awaits (client disconnect, or the
\* TimeoutLayer firing): the reply receiver is dropped.
AbortRequest(id) ==
    /\ ProcessAlive
    /\ caller[id] = "awaiting"
    /\ oneshot' = [oneshot EXCEPT ![id] = OneshotDropReceiver(@)]
    /\ caller' = [caller EXCEPT ![id] = "aborted"]
    /\ UNCHANGED <<boot, serve, libcall, model_map, queue, handles, worker,
                   inflight, exit, nextId, requests, response, accepted,
                   handled, replied, sendSaw, proc>>

\* ModelCard and ModelCardList; `created` is the wall clock at the time of the
\* request and is left out
ModelCard(id) == [id |-> id, object |-> "model", owned_by |-> "hf_hub"]
ModelCardList(cards) == [object |-> "list", data |-> cards]

\* HashMap::keys: every key once, in an order the hasher decides
KeyOrders(map) ==
    {order \in [1 .. Cardinality(DOMAIN map) -> DOMAIN map] :
        \A i, j \in DOMAIN order : order[i] = order[j] => i = j}

\* A request to a route other than /v1/embeddings, with the path's model id
RouteRequest(route, model_id) == [route |-> route, model |-> model_id]

\* Such a handler runs to its end without suspending: request id is answered
\* with r, and nothing of the executors is touched
AnswerAtOnce(id, request, r) ==
    /\ Accepting
    /\ nextId' = nextId + 1
    /\ requests' = [requests EXCEPT ![id] = request]
    /\ response' = [response EXCEPT ![id] = r]
    /\ caller' = [caller EXCEPT ![id] = "done"]
    /\ UNCHANGED <<boot, serve, libcall, queue, handles, worker, inflight,
                   exit, oneshot, accepted, handled, replied, sendSaw, proc>>

\* list_models: GET /v1/models
ListModels ==
    /\ nextId <= MaxRequests
    /\ \E order \in KeyOrders(model_map) :
          AnswerAtOnce(nextId, RouteRequest("list_models", ""),
                       Response(StatusOk, "",
                                ModelCardList([k \in DOMAIN order |->
                                                  ModelCard(order[k])])))
    /\ UNCHANGED model_map

\* What a GET /v1/models/:model_id carries: the id in its path, and a body
\* (empty as a rule, since a GET has none)
PathIds == ModelNames \cup {UnknownModel}
Bodies == {"", "a"}

\* The arguments axum extracts for get_model: State, then `model_id: String`.
\* A bare String is the extractor of the request body as text; the handler
\* names no Path extractor, so the :model_id segment of the path is not read.
ExtractModelId(path_id, body) == body

\* get_model: GET /v1/models/:model_id
GetModel(path_id, body) ==
    LET model_id == ExtractModelId(path_id, body)
    IN  /\ nextId <= MaxRequests
        /\ AnswerAtOnce(nextId, RouteRequest("get_model", path_id),
                        IF ModelMapGet(model_map, model_id).some
                        THEN Response(StatusOk, "", ModelCard(model_id))
                        ELSE IntoResponse(ModelNotFound))
        /\ model_map' = ModelMapAfterGet(model_map, model_id)

\* health_check: GET /health
HealthCheck ==
    /\ nextId <= MaxRequests
    /\ AnswerAtOnce(nextId, RouteRequest("health", ""),
                    Response(StatusOk, "Everything is ok!", NoPayload))
    /\ UNCHANGED model_map

\* ------------------------------------------------------- sender handles
\* Client::clone, or Client::new on the executor handle: one more sender
CloneClient(e) ==
    /\ ProcessAlive
    /\ Senders(e) > 0
    /\ Senders(e) < MaxHandles
    /\ handles' = [handles EXCEPT ![e].clients = @ + 1]
    /\ UNCHANGED <<boot, serve, libcall, model_map, queue, worker, inflight,
                   exit, nextId, requests, oneshot, caller, response, accepted,
                   handled, replied, sendSaw, proc>>

\* Dropping a Client: one sender fewer
DropClient(e) ==
    /\ ProcessAlive
    /\ handles[e].clients > 0
    /\ handles' = [handles EXCEPT ![e].clients = @ - 1]
    /\ UNCHANGED <<boot, serve, libcall, model_map, queue, worker, inflight,
                   exit, nextId, requests, oneshot, caller, response, accepted,
                   handled, replied, sendSaw, proc>>

\* Dropping the last Arc of the DedicatedExecutor: its tx is dropped. A map
\* entry is the tuple (client, executor), whose fields drop in that order: the
\* executor handle goes after the clients.
DropExecutor(e) ==
    /\ ProcessAlive
    /\ handles[e].executors > 0
    /\ handles[e].clients = 0
    /\ handles' = [handles EXCEPT ![e].executors = @ - 1]
    /\ UNCHANGED <<boot, serve, libcall, model_map, queue, worker, inflight,
                   exit, nextId, requests, oneshot, caller, response, accepted,
                   handled, replied, sendSaw, proc>>

\* Stop commands buffered in q
QueuedStops(q) == Cardinality({j \in 1 .. Len(q) : q[j].type = "Stop"})

\* A holder of the sender sends Command::Stop; on a closed channel the send
\* fails and nothing changes
SendStop(e) ==
    /\ ProcessAlive
    /\ Senders(e) > 0
    /\ QueuedStops(queue[e]) < MaxStops
    /\ queue' = [queue EXCEPT ![e] = IF ReceiverAlive(e)
                                          THEN Enqueue(@, StopCmd(Len(accepted[e])))
                                          ELSE @]
    /\ UNCHANGED <<boot, serve, libcall, model_map, handles, worker, inflight,
                   exit, nextId, requests, oneshot, caller, response, accepted,
                   handled, replied, sendSaw, proc>>

\* Dropping an EmbeddingsClient that has the Drop impl of infer/client.rs:
\* drop sends Stop on the command channel, then the tx field is dropped. On a
\* channel whose receiver is gone the send fails and `expect` panics in the
\* dropping thread; the unwinding still drops the tx.
DropEmbeddingsClient(e) ==
    /\ ProcessAlive
    /\ handles[e].clients > 0
    /\ QueuedStops(queue[e]) < MaxStops
    /\ queue' = [queue EXCEPT ![e] = IF ReceiverAlive(e)
                                          THEN Enqueue(@, StopCmd(Len(accepted[e])))
                                          ELSE @]
    /\ handles' = [handles EXCEPT ![e].clients = @ - 1]
    /\ UNCHANGED <<boot, serve, libcall, model_map, worker, inflight, exit,
                   nextId, requests, oneshot, caller, response, accepted,
                   handled, replied, sendSaw, proc>>

\* ------------------------------------------------------------ worker thread
\* Mutant: the handler call is spawned and the loop goes on receiving
CanRecvWhileHandling(e) == worker[e] \in {"recv", "handling"}

\* The loop takes its next command only between two handler calls
CanRecv(e) == worker[e] = "recv"

\* Mutant: the buffered commands are leaked, not dropped
DropQueuedLeak(chans, q) == chans

\* Closing the command channel drops every buffered command, and with each
\* Append its response_tx
DropQueued(chans, q) ==
    [id \in RequestIds |-> IF id \in QueuedIds(q) THEN OneshotDropSender(chans[id])
                           ELSE chans[id]]

\* Mutant: Stop is taken from the channel and ignored
LeaveQueueTaskIgnoresStop(e, why, chans, q) ==
    IF why = "stop"
    THEN /\ queue' = [queue EXCEPT ![e] = q]
         /\ UNCHANGED <<worker, exit, oneshot>>
    ELSE /\ worker' = [worker EXCEPT ![e] = "exited"]
         /\ exit' = [exit EXCEPT ![e] = why]
         /\ oneshot' = DropQueued(chans, q)
         /\ queue' = [queue EXCEPT ![e] = <<>>]

\* The worker thread leaves queue_task (by return or by unwinding): the frame's
\* receiver is dropped, which closes the command channel and drops what is
\* buffered in it. chans and q are the reply channels and the buffer then.
LeaveQueueTask(e, why, chans, q) ==
    /\ worker' = [worker EXCEPT ![e] = "exited"]
    /\ exit' = [exit EXCEPT ![e] = why]
    /\ oneshot' = DropQueued(chans, q)
    /\ queue' = [queue EXCEPT ![e] = <<>>]

\* queue_task: recv yields a command; Append starts the handler call on the
\* worker thread, Stop breaks the loop.
Recv(e) ==
    /\ ProcessAlive
    /\ CanRecv(e)
    /\ queue[e] # <<>>
    /\ LET cmd == NextCommand(queue[e])
       IN  IF cmd.type = "Append"
           THEN /\ queue' = [queue EXCEPT ![e] = Remaining(@)]
                /\ worker' = [worker EXCEPT ![e] = "handling"]
                /\ inflight' = [inflight EXCEPT ![e] =
                                   @ \cup {[id |-> cmd.id, thread |-> WorkerThread(e)]}]
                /\ handled' = [handled EXCEPT ![e] = Append(@, cmd.id)]
                /\ UNCHANGED <<exit, oneshot>>
           ELSE /\ LeaveQueueTask(e, "stop", oneshot, Remaining(queue[e]))
                /\ UNCHANGED <<inflight, handled>>
    /\ UNCHANGED <<boot, serve, libcall, model_map, handles, nextId, requests,
                   caller, response, accepted, replied, sendSaw, proc>>

\* Mutant: recv yields None as soon as every sender is gone, whatever is
\* still buffered
RecvNoneDiscards(e) ==
    /\ ProcessAlive
    /\ CanRecv(e)
    /\ ChannelClosed(e)
    /\ LeaveQueueTask(e, "closed", oneshot, queue[e])
    /\ UNCHANGED <<boot, serve, libcall, model_map, handles, inflight, nextId,
                   requests, caller, response, accepted, handled, replied,
                   sendSaw, proc>>

\* queue_task: recv yields None, the channel is empty and every sender is gone
RecvNone(e) ==
    /\ ProcessAlive
    /\ CanRecv(e)
    /\ queue[e] = <<>>
    /\ ChannelClosed(e)
    /\ LeaveQueueTask(e, "closed", oneshot, queue[e])
    /\ UNCHANGED <<boot, serve, libcall, model_map, handles, inflight, nextId,
                   requests, caller, response, accepted, handled, replied,
                   sendSaw, proc>>

\* Mutant: the response goes out on another entry's channel
ReplyChannelOther(entry) == CHOOSE id \in RequestIds : id # entry.id

\* The channel the worker sends entry's response on
ReplyChannel(entry) == entry.id

\* Mutant: a reply that cannot be sent ends the loop
AfterSendBreaks(ch) == IF ch.state = "open" THEN "recv" ELSE "exited"

\* queue_task after response_tx.send on channel ch: whether the send returned
\* Ok or Err it only logs, and the loop takes its next command
AfterSend(ch) == "recv"

\* queue_task: handle returned Ok(response); entry.response_tx.send(response)
HandleOk(e) ==
    /\ ProcessAlive
    /\ worker[e] = "handling"
    /\ \E entry \in inflight[e] :
          /\ oneshot' = [oneshot EXCEPT ![ReplyChannel(entry)] =
                            OneshotSend(@, Handle(requests[entry.id]))]
          /\ replied' = [replied EXCEPT ![e] = Append(@, ReplyChannel(entry))]
          /\ inflight' = [inflight EXCEPT ![e] = @ \ {entry}]
          /\ worker' = [worker EXCEPT ![e] = AfterSend(oneshot[ReplyChannel(entry)])]
    /\ UNCHANGED <<boot, serve, libcall, model_map, queue, handles, exit,
                   nextId, requests, caller, response, accepted, handled,
                   sendSaw, proc>>

\* The worker leaves queue_task during a handler call: the entry, and with it
\* its response_tx, is dropped without a send.
AbandonEntry(e, why) ==
    /\ ProcessAlive
    /\ worker[e] = "handling"
    /\ \E entry \in inflight[e] :
          /\ LeaveQueueTask(e, why,
                            [oneshot EXCEPT ![entry.id] = OneshotDropSender(@)],
                            queue[e])
          /\ inflight' = [inflight EXCEPT ![e] = @ \ {entry}]
    /\ UNCHANGED <<boot, serve, libcall, model_map, handles, nextId, requests,
                   caller, response, accepted, handled, replied, sendSaw,
                   proc>>

\* Mutant: the error is logged, the entry is dropped and the loop goes on
HandleErrContinues(e) ==
    /\ ProcessAlive
    /\ worker[e] = "handling"
    /\ \E entry \in inflight[e] :
          /\ oneshot' = [oneshot EXCEPT ![entry.id] = OneshotDropSender(@)]
          /\ inflight' = [inflight EXCEPT ![e] = @ \ {entry}]
    /\ worker' = [worker EXCEPT ![e] = "recv"]
    /\ exit' = [exit EXCEPT ![e] = "error"]
    /\ UNCHANGED <<boot, serve, libcall, model_map, queue, handles, nextId,
                   requests, caller, response, accepted, handled, replied,
                   sendSaw, proc>>

\* queue_task: handle returned Err, `?` returns it from queue_task
HandleErr(e) == AbandonEntry(e, "error")

\* handle panicked: the worker thread unwinds out of queue_task
HandlePanic(e) == AbandonEntry(e, "panic")

WorkerStep(e) ==
    \/ Recv(e)
    \/ RecvNone(e)
    \/ HandleOk(e)
    \/ HandleErr(e)
    \/ HandlePanic(e)

Next ==
    \/ \E request \in Posted : InferTextEmbeddings(request)
    \/ \E id \in RequestIds : AwaitReply(id)
    \/ \E id \in RequestIds : AbortRequest(id)
    \/ \E e \in Operated : CloneClient(e)
    \/ \E e \in Operated : DropClient(e)
    \/ \E e \in Operated : DropEmbeddingsClient(e)
    \/ \E e \in Operated : DropExecutor(e)
    \/ \E e \in Operated : SendStop(e)
    \/ \E e \in ModelNames : Recv(e)
    \/ \E e \in ModelNames : RecvNone(e)
    \/ \E e \in ModelNames : HandleOk(e)
    \/ \E e \in ModelNames : HandleErr(e)
    \/ \E e \in ModelNames : HandlePanic(e)

Spec == Init /\ [][Next]_vars

\* The worker thread is an OS thread of its own and the handler call returns:
\* a worker step that stays possible is eventually taken.
FairSpec == Spec /\ \A e \in ModelNames : WF_vars(WorkerStep(e))

\* The server with all its routes (init_router)
ServerNext ==
    \/ Next
    \/ ListModels
    \/ \E path_id \in PathIds, body \in Bodies : GetModel(path_id, body)
    \/ HealthCheck

ServerSpec == Init /\ [][ServerNext]_vars

\* -------------------------------------------------------- server shutdown
\* shutdown_signal: the select! over ctrl_c() and, on unix, a
\* SignalKind::terminate() stream resolves on the first of the two
Signals == {"SIGINT", "SIGTERM"}

\* The requests whose handler task is running (here: awaiting its reply)
InFlight == {id \in RequestIds : caller[id] = "awaiting"}

\* The signal future of with_graceful_shutdown resolves: the listener is
\* closed, and each connection is let finish the request it is serving
ShutdownSignal(sig) ==
    /\ serve.state = "serving"
    /\ serve' = [state |-> "draining", pending |-> InFlight, at |-> nextId]
    /\ UNCHANGED <<boot, libcall, model_map, queue, handles, worker, inflight,
                   exit, nextId, requests, oneshot, caller, response, accepted,
                   handled, replied, sendSaw, proc>>

\* Mutant: serve is raced against the signal and returns with it
DrainedAtOnce == TRUE

\* with_graceful_shutdown's future completes when no connection has a
\* request in flight any more
Drained == InFlight = {}

\* axum::serve(..).with_graceful_shutdown(..).await returns and main returns
\* Ok(ExitCode::SUCCESS): the process ends, and its worker threads with it
ServeReturns ==
    /\ serve.state = "draining"
    /\ Drained
    /\ serve' = [serve EXCEPT !.state = "returned"]
    /\ UNCHANGED <<boot, libcall, model_map, queue, handles, worker, inflight,
                   exit, nextId, requests, oneshot, caller, response, accepted,
                   handled, replied, sendSaw, proc>>

ShutdownNext ==
    \/ Next
    \/ \E sig \in Signals : ShutdownSignal(sig)
    \/ ServeReturns

\* The server from serving to the return of main
ShutdownSpec == Init /\ [][ShutdownNext]_vars

\* ------------------------------------------------- library calls on their own
\* The state around a library call: no server has been built
NoServer ==
    /\ boot = [model_repos |-> <<>>, loads |-> <<>>, result |-> "none"]
    /\ serve = NotServing
    /\ model_map = <<>>
    /\ queue = <<>>
    /\ handles = <<>>
    /\ worker = <<>>
    /\ inflight = <<>>
    /\ exit = <<>>
    /\ nextId = 1
    /\ requests = [r \in RequestIds |-> NoRequest]
    /\ oneshot = [r \in RequestIds |-> NoChan]
    /\ caller = [r \in RequestIds |-> "none"]
    /\ response = [r \in RequestIds |-> NoResponse]
    /\ accepted = <<>>
    /\ handled = <<>>
    /\ replied = <<>>
    /\ sendSaw = [r \in RequestIds |-> "none"]

\* A call of fn with args that has not returned, and one that returned result
Calling(fn, args) == [fn |-> fn, args |-> args, returned |-> FALSE, result |-> None]
Returned(c, result) == [c EXCEPT !.returned = TRUE, !.result = result]

\* The library function fn returns what the operator gives for its arguments
LibReturn(fn, result) ==
    /\ libcall.fn = fn
    /\ ~libcall.returned
    /\ libcall' = Returned(libcall, result)
    /\ UNCHANGED <<boot, serve, model_map, queue, handles, worker, inflight,
                   exit, nextId, requests, oneshot, caller, response, accepted,
                   handled, replied, sendSaw, proc>>

\* The names a repository string is made of (no colon, no illegal character)
Names == {"a", "rev", "Bert"}
Lexemes == Names \cup {Colon} \cup IllegalChars

\* The repository strings of up to MaxLexemes lexemes; two names in a row
\* would be one longer name
ParseInputs ==
    {s \in UNION {[1 .. n -> Lexemes] : n \in 0 .. MaxLexemes} :
        \A i \in 1 .. Len(s) - 1 : ~(s[i] \in Names /\ s[i + 1] \in Names)}

CallParseRepoString ==
    LibReturn("parse_repo_string", ParseRepoString(libcall.args))

ParseInit ==
    /\ proc = NoProc
    /\ libcall \in {Calling("parse_repo_string", s) : s \in ParseInputs}
    /\ NoServer

ParseNext == CallParseRepoString

\* parse_repo_string called once on each repository string
ParseSpec == ParseInit /\ [][ParseNext]_vars

\* ------------------------------------------------------ model configuration
\* The architecture names that occur in a config.json, and str::ends_with on
\* them for the two suffixes the code asks about
Architectures ==
    {"BertModel", "JinaBertForMaskedLM", "DistilBertForMaskedLM",
     "BertForMaskedLM", "BertForSequenceClassification"}
EndsWith(arch, suffix) ==
    CASE suffix = "MaskedLM" ->
             arch \in {"JinaBertForMaskedLM", "DistilBertForMaskedLM", "BertForMaskedLM"}
      [] suffix = "Classification" -> arch = "BertForSequenceClassification"

\* The architectures lists of up to MaxArchs entries
ArchLists == UNION {[1 .. n -> Architectures] : n \in 0 .. MaxArchs}

\* ModelConfig: Bert | JinaBert | DistilBert
Variants == {"Bert", "JinaBert", "DistilBert"}

\* A config.json as model::embedder::parse_config reads it: the architectures
\* key (it may be absent), and the variants whose configuration the rest of
\* the document deserializes into
ConfigStrs ==
    {[architectures |-> a, deserializes |-> d] :
        a \in {NoneOf(<<>>)} \cup {Some(l) : l \in ArchLists},
        d \in SUBSET Variants}

\* serde_json::from_str::<the variant's Config>(config_str)
FromStr(config_str, variant) ==
    IF variant \in config_str.deserializes
    THEN Ok(variant)
    ELSE Err("Serde")

\* Mutant: of several architectures the first is taken
TooManyNever(arch) == FALSE

\* parse_config: arch.len() > 1
TooMany(arch) == Len(arch) > 1

\* model::embedder::parse_config
ParseConfig(config_str) ==
    IF ~config_str.architectures.some
    THEN Err("Model architecture not found")
    ELSE LET arch == config_str.architectures.value
         IN  IF arch = <<>> THEN Err("No architectures found")
             ELSE IF TooMany(arch) THEN Err("Multiple architectures not supported")
             ELSE CASE arch[1] = "BertModel" -> FromStr(config_str, "Bert")
                    [] arch[1] = "JinaBertForMaskedLM" -> FromStr(config_str, "JinaBert")
                    [] arch[1] = "DistilBertForMaskedLM" ->
                           FromStr(config_str, "DistilBert")
                    [] OTHER -> Err("Invalid model architecture")

\* PoolingStrategy, and ModelType: Classifier | Embedding(PoolingStrategy)
PoolingStrategies == {"Cls", "Mean", "Splade"}
Classifier == [type |-> "Classifier", pooling |-> ""]
EmbeddingType(ps) == [type |-> "Embedding", pooling |-> ps]

NoPoolConfig ==
    [readable |-> FALSE, pooling_mode_cls_token |-> FALSE,
     pooling_mode_mean_tokens |-> FALSE]

\* 1_Pooling/config.json as get_backend_model_type reads it: whether it can be
\* read and deserialized into PoolConfig, and the two flags it looks at
PoolConfigs ==
    {[readable |-> TRUE, pooling_mode_cls_token |-> c, pooling_mode_mean_tokens |-> m] :
        c, m \in BOOLEAN}
      \cup {NoPoolConfig}

\* get_backend_model_type, its loop over config.architectures from entry k on
\* for the explicit strategy p: the first entry that returns decides
RECURSIVE ScanArchitectures(_, _, _)
ScanArchitectures(p, architectures, k) ==
    IF k > Len(architectures) THEN None
    ELSE IF p = "Splade" /\ EndsWith(architectures[k], "MaskedLM")
    THEN Some(Ok(EmbeddingType("Splade")))
    ELSE IF EndsWith(architectures[k], "Classification")
    THEN Some(Ok(Classifier))
    ELSE ScanArchitectures(p, architectures, k + 1)

\* Mutant: the pooling config file, when there is one, goes before the
\* explicit strategy
ResolvePoolConfigFirst(pooling, pooling_config_path) ==
    IF pooling_config_path.some /\ pooling_config_path.value.readable
    THEN LET config == pooling_config_path.value
         IN  IF config.pooling_mode_cls_token THEN Ok("Cls")
             ELSE IF config.pooling_mode_mean_tokens THEN Ok("Mean")
             ELSE Err("ModelLoad")
    ELSE IF pooling.some THEN Ok(pooling.value)
    ELSE Err("NoPoolingConfiguration")

\* get_backend_model_type, "Set pooling": the match on
\* (pooling, pooling_config_path)
ResolvePool(pooling, pooling_config_path) ==
    IF pooling.some THEN Ok(pooling.value)
    ELSE IF pooling_config_path.some
    THEN LET config == pooling_config_path.value
         IN  IF ~config.readable THEN Err("IO or Serde")
             ELSE IF config.pooling_mode_cls_token THEN Ok("Cls")
             ELSE IF config.pooling_mode_mean_tokens THEN Ok("Mean")
             ELSE Err("ModelLoad")
    ELSE Err("NoPoolingConfiguration")

\* core::config::parse::get_backend_model_type
GetBackendModelType(config, pooling_config_path, pooling) ==
    LET scan == IF pooling.some
                THEN ScanArchitectures(pooling.value, config.architectures, 1)
                ELSE None
        pool == ResolvePool(pooling, pooling_config_path)
    IN  IF scan.some THEN scan.value
        ELSE IF pooling = Some("Splade") THEN Err("ModelLoad")
        ELSE IF pool.ok THEN Ok(EmbeddingType(pool.value))
        ELSE pool

\* The arguments of get_backend_model_type
BackendArgs ==
    {[config |-> [architectures |-> l], pooling_config_path |-> pc, pooling |-> ps] :
        l \in ArchLists,
        pc \in {NoneOf(NoPoolConfig)} \cup {Some(c) : c \in PoolConfigs},
        ps \in {None} \cup {Some(x) : x \in PoolingStrategies}}

\* The files of a model repository folder that file_paths asks for, and one
\* it does not
SAFETENSORS_FILE == "model.safetensors"
PTH_FILE == "pytorch_model.bin"
POOLING_CONFIG_FILE == "1_Pooling/config.json"
RepoFiles ==
    {"config.json", "tokenizer.json", SAFETENSORS_FILE, PTH_FILE,
     POOLING_CONFIG_FILE, "README.md"}

\* ModelRepo::Folder(root): a local directory is the set of the files in it
Folders == SUBSET RepoFiles

\* root.join(name), and Path::exists on it
Join(root, name) == name
Exists(root, name) == name \in root

\* Mutant: pytorch_model.bin is looked for first
ModelWeightsPthFirst(root) ==
    IF Exists(root, PTH_FILE)
    THEN Ok([kind |-> "Pth", path |-> Join(root, PTH_FILE)])
    ELSE IF Exists(root, SAFETENSORS_FILE)
    THEN Ok([kind |-> "Safetensors", path |-> Join(root, SAFETENSORS_FILE)])
    ELSE Err("Repository doesn't contain model weights.")

\* file_paths: "Safetensors get precedence over pth."
ModelWeights(root) ==
    IF Exists(root, SAFETENSORS_FILE)
    THEN Ok([kind |-> "Safetensors", path |-> Join(root, SAFETENSORS_FILE)])
    ELSE IF Exists(root, PTH_FILE)
    THEN Ok([kind |-> "Pth", path |-> Join(root, PTH_FILE)])
    ELSE Err("Repository doesn't contain model weights.")

\* ModelRepo::file_paths on ModelRepo::Folder(root)
FilePaths(root) ==
    IF \E name \in {"config.json", "tokenizer.json"} : ~Exists(root, name)
    THEN Err("Repository misses configuration files.")
    ELSE IF ~ModelWeights(root).ok THEN ModelWeights(root)
    ELSE Ok([config |-> Join(root, "config.json"),
             tokenizer_config |-> Join(root, "tokenizer.json"),
             model_weights |-> ModelWeights(root).value,
             pooling_config |-> IF Exists(root, POOLING_CONFIG_FILE)
                                THEN Some(Join(root, POOLING_CONFIG_FILE))
                                ELSE None])

CallFilePaths == LibReturn("file_paths", FilePaths(libcall.args))

CallParseConfig == LibReturn("parse_config", ParseConfig(libcall.args))

CallGetBackendModelType ==
    LibReturn("get_backend_model_type",
              GetBackendModelType(libcall.args.config,
                                  libcall.args.pooling_config_path,
                                  libcall.args.pooling))

ConfigInit ==
    /\ proc = NoProc
    /\ libcall \in {Calling("parse_config", c) : c \in ConfigStrs}
                      \cup {Calling("get_backend_model_type", a) : a \in BackendArgs}
                      \cup {Calling("file_paths", root) : root \in Folders}
    /\ NoServer

ConfigNext == CallParseConfig \/ CallGetBackendModelType \/ CallFilePaths

\* parse_config, get_backend_model_type and file_paths, each called once on
\* each input
ConfigSpec == ConfigInit /\ [][ConfigNext]_vars

\* --------------------------------------------------------------- encoding
\* The models behind EmbedderModel
EmbedderModels == {"BertModel", "JinaBertModel", "DistilBertModel"}
ModelTypes == {Classifier} \cup {EmbeddingType(ps) : ps \in PoolingStrategies}

\* Token ids; the tokenizer's pad id when it has no padding parameters
TokenIds == {0, 1}
PadId == 0

\* What the tokenizer gives for a batch of sentences: one row of ids per
\* sentence, of equal lengths only if the tokenizer pads
TokenRows == UNION {[1 .. l -> TokenIds] : l \in 1 .. MaxTokens}
TokenBatches == UNION {[1 .. n -> TokenRows] : n \in 1 .. MaxBatch}

\* The tensors of shape N x L
Tensors ==
    UNION {[1 .. n -> [1 .. l -> TokenIds]] :
               n \in 1 .. MaxBatch, l \in 1 .. MaxTokens}

\* Tensor::dim(0), and the length of the other dimension
Dim0(t) == Len(t)
Dim1(t) == Len(t[1])

\* Tensor::stack(&token_ids, 0): the rows must have one shape
Stack(rows) ==
    IF \A n \in DOMAIN rows : Len(rows[n]) = Len(rows[1])
    THEN Ok(rows) ELSE Err("Candle")

\* (0..size).flat_map(|i| (0..size).map(move |j| u8::from(j > i))), shaped
\* (size, size)
Mask(size) == [i \in 1 .. size |-> [j \in 1 .. size |-> IF j > i THEN 1 ELSE 0]]
NoMask == <<>>

\* The model's forward pass is the candle model's: its output is a token
\* embedding per sentence and position, a function of what it was called with
Forward(token_ids, mask) ==
    [token_ids |-> token_ids, mask |-> mask,
     hidden |-> [n \in 1 .. Dim0(token_ids) |->
                    [l \in 1 .. Dim1(token_ids) |-> <<n, l>>]]]

\* EmbedderModel::encode of the three models
Encode(model, token_ids) ==
    IF model = "DistilBertModel"
    THEN LET size == Dim0(token_ids)
         IN  Ok(Forward(token_ids, Mask(size)))
    ELSE Ok(Forward(token_ids, NoMask))

\* The strategy encode_batch_with_usage pools with
PoolingStrategyOf(model_type) ==
    IF model_type = Classifier THEN "Cls" ELSE model_type.pooling

\* embeddings.i((.., 0)) for Cls, the sum over the positions that hold no
\* padding for Mean: each row as the set of the token embeddings summed
Pool(pooling_strategy, token_ids, hidden) ==
    [n \in DOMAIN hidden |->
        IF pooling_strategy = "Cls" THEN {hidden[n][1]}
        ELSE {hidden[n][l] : l \in {k \in DOMAIN hidden[n] : token_ids[n][k] # PadId}}]

\* encode_batch_with_usage reaches panic!("SPLADE is not yet implemented.")
Panics(a) == Stack(a.tokens).ok /\ PoolingStrategyOf(a.model_type) = "Splade"

\* encode_batch_with_usage on tokenized sentences, where it returns
EncodeBatchWithUsageOf(a) ==
    LET prompt_tokens == Len(a.tokens)
        usage == [prompt_tokens |-> prompt_tokens, total_tokens |-> prompt_tokens]
        token_ids == Stack(a.tokens)
    IN  IF ~token_ids.ok THEN token_ids
        ELSE LET embeddings == Encode(a.model, token_ids.value).value.hidden
             IN  Ok([embeddings |->
                        [rows |-> Pool(PoolingStrategyOf(a.model_type),
                                       token_ids.value, embeddings),
                         normalized |-> a.normalize],
                     usage |-> usage])

EncodeArgs == [model : EmbedderModels, token_ids : Tensors]
EncodeBatchArgs ==
    [model : EmbedderModels, model_type : ModelTypes, tokens : TokenBatches,
     normalize : BOOLEAN]

\* A panic unwinds the calling thread: the call never returns
Panicked(c, msg) ==
    [fn |-> c.fn, args |-> c.args, returned |-> FALSE, result |-> None,
     panic |-> msg]
Unwinding == "panic" \in DOMAIN libcall

CallEncode == LibReturn("encode", Encode(libcall.args.model, libcall.args.token_ids))

EncodeBatchReturns ==
    /\ libcall.fn = "encode_batch_with_usage"
    /\ ~Panics(libcall.args)
    /\ LibReturn("encode_batch_with_usage", EncodeBatchWithUsageOf(libcall.args))

EncodeBatchPanics ==
    /\ libcall.fn = "encode_batch_with_usage"
    /\ ~Unwinding
    /\ Panics(libcall.args)
    /\ libcall' = Panicked(libcall, "SPLADE is not yet implemented.")
    /\ UNCHANGED <<boot, serve, model_map, queue, handles, worker, inflight,
                   exit, nextId, requests, oneshot, caller, response, accepted,
                   handled, replied, sendSaw, proc>>

EncodeInit ==
    /\ proc = NoProc
    /\ libcall \in {Calling("encode", a) : a \in EncodeArgs}
                      \cup {Calling("encode_batch_with_usage", a) : a \in EncodeBatchArgs}
    /\ NoServer

EncodeNext == CallEncode \/ EncodeBatchReturns \/ EncodeBatchPanics

\* encode and encode_batch_with_usage, each called once on each input
EncodeSpec == EncodeInit /\ [][EncodeNext]_vars

\* ------------------------------------------------------ proc: worker pool
\* Every variable but proc
ServerVars ==
    <<boot, serve, libcall, model_map, queue, handles, worker, inflight, exit,
      nextId, requests, oneshot, caller, response, accepted, handled, replied,
      sendSaw>>

\* QueueCommand<T>; the tasks are numbered in the order they are made
AppendTask(t) == [type |-> "Append", task |-> t]
ClearTasks == [type |-> "Clear", task |-> 0]
StopQueue == [type |-> "Stop", task |-> 0]

\* A worker thread between two tasks, and one inside task.process()
Idle == [state |-> "recv", task |-> 0]
Processing(t) == [state |-> "processing", task |-> t]
Exited == [state |-> "exited", task |-> 0]

\* Worker::new(rx) on the receiver of flume::unbounded(), the sender tx held
\* by the caller (tests::test_worker)
WorkerAlone ==
    [kind |-> "worker", n |-> 1, bounded |-> FALSE,
     commands |-> <<>>, queue_senders |-> 0, dispatcher |-> "none",
     pending |-> 0, tasks |-> <<>>,
     channel |-> <<>>, senders |-> 1,
     workers |-> <<Idle>>, receivers |-> <<TRUE>>,
     made |-> 0, log |-> <<>>, started |-> <<>>, processed |-> <<>>,
     joined |-> 0]

\* Queue::new(n_workers): the command channel with its sender, the worker
\* channel bounded by n_workers with worker_sender moved into the background
\* task, and a WorkerPool of n_workers workers
QueueNew(n_workers) ==
    [kind |-> "queue", n |-> n_workers, bounded |-> TRUE,
     commands |-> <<>>, queue_senders |-> 1, dispatcher |-> "recv",
     pending |-> 0, tasks |-> <<>>,
     channel |-> <<>>, senders |-> 1,
     workers |-> [w \in 1 .. n_workers |-> Idle],
     receivers |-> [w \in 1 .. n_workers |-> TRUE],
     made |-> 0, log |-> <<>>, started |-> <<>>, processed |-> <<>>,
     joined |-> 0]

IsQueue == proc.kind = "queue"
IsWorker == proc.kind = "worker"
Workers == 1 .. proc.n

\* join was called; join has returned
JoinCalled == proc.joined > 0
JoinReturned == proc.joined = proc.n + 1

\* The step leaves everything outside the proc module alone
ProcStep(next) == proc' = next /\ UNCHANGED ServerVars

\* The worker channel has room for one more task
HasRoom == ~proc.bounded \/ Len(proc.channel) < proc.n

\* A receiver of the worker channel is left: a Worker's handle, or the clone
\* its thread holds until it leaves the loop
ReceiversAlive ==
    \E w \in Workers : proc.receivers[w] \/ proc.workers[w].state # "exited"

\* ---- the Worker
\* tx.send_async(task) by the holder of a sender of the Worker's channel
SendTask ==
    /\ IsWorker
    /\ proc.senders > 0
    /\ proc.made < MaxTasks
    /\ LET t == proc.made + 1
       IN  ProcStep([proc EXCEPT !.made = t,
                                 !.log = Append(@, AppendTask(t)),
                                 !.channel = IF ReceiversAlive THEN Append(@, t) ELSE @])

\* tx.clone(), drop(tx)
CloneTx ==
    /\ IsWorker
    /\ proc.senders > 0
    /\ proc.senders < MaxHandles
    /\ ProcStep([proc EXCEPT !.senders = @ + 1])

DropTx ==
    /\ IsWorker
    /\ proc.senders > 0
    /\ ProcStep([proc EXCEPT !.senders = @ - 1])

\* Receiver::recv on a channel that holds a task: the one sent first
Take(channel) == [task |-> Head(channel), rest |-> Tail(channel)]

\* The thread of worker w: recv_clone.recv() returned Ok(task)
WorkerRecv(w) ==
    /\ proc.kind # "none"
    /\ w \in Workers
    /\ proc.workers[w].state = "recv"
    /\ proc.channel # <<>>
    /\ LET got == Take(proc.channel)
       IN  ProcStep([proc EXCEPT !.channel = got.rest,
                                 !.workers[w] = Processing(got.task),
                                 !.started = Append(@, [task |-> got.task, worker |-> w])])

\* The thread of worker w: task.process() returned
WorkerProcessed(w) ==
    /\ proc.kind # "none"
    /\ w \in Workers
    /\ proc.workers[w].state = "processing"
    /\ ProcStep([proc EXCEPT !.workers[w] = Idle,
                             !.processed = Append(@, [task |-> proc.workers[w].task,
                                                      worker |-> w])])

\* Mutant: recv fails as soon as every sender is gone, whatever is buffered
DisconnectedAtOnce == proc.senders = 0

\* Receiver::recv fails: the channel is empty and every sender is gone
Disconnected == proc.senders = 0 /\ proc.channel = <<>>

\* The thread of worker w: recv_clone.recv() returned Err, the loop and the
\* thread end
WorkerExit(w) ==
    /\ proc.kind # "none"
    /\ w \in Workers
    /\ proc.workers[w].state = "recv"
    /\ Disconnected
    /\ ProcStep([proc EXCEPT !.workers[w] = Exited])

\* Worker::join up to its await: drop(self.receiver)
WorkerJoin ==
    /\ IsWorker
    /\ ~JoinCalled
    /\ ProcStep([proc EXCEPT !.joined = 1, !.receivers[1] = FALSE])

\* Mutant: join returns without waiting for the thread
ThreadEndedAtOnce(w) == TRUE

\* join_handle.await resolves: the thread of worker w has ended
ThreadEnded(w) == proc.workers[w].state = "exited"

\* Worker::join returns
WorkerJoinReturns ==
    /\ IsWorker
    /\ proc.joined = 1
    /\ ThreadEnded(1)
    /\ ProcStep([proc EXCEPT !.joined = 2])

\* ---- the Queue
\* Queue::append, Queue::clear, Queue::stop: the command is sent on the
\* command channel; the send fails once the background task has ended
QueueSend(cmd) ==
    [proc EXCEPT !.log = Append(@, cmd),
                 !.commands = IF proc.dispatcher # "ended" THEN Append(@, cmd) ELSE @]

QueueAppend ==
    /\ IsQueue
    /\ ~JoinCalled
    /\ Len(proc.log) < MaxCommands
    /\ proc.made < MaxTasks
    /\ ProcStep([QueueSend(AppendTask(proc.made + 1)) EXCEPT !.made = @ + 1])

QueueClear ==
    /\ IsQueue
    /\ ~JoinCalled
    /\ Len(proc.log) < MaxCommands
    /\ ProcStep(QueueSend(ClearTasks))

QueueStop ==
    /\ IsQueue
    /\ ~JoinCalled
    /\ Len(proc.log) < MaxCommands
    /\ ProcStep(QueueSend(StopQueue))

\* The background task: worker_sender.send_async(task) completes
SendToWorkers(p, t) ==
    [p EXCEPT !.channel = IF ReceiversAlive THEN Append(@, t) ELSE @,
              !.dispatcher = "recv", !.pending = 0]

\* The background task: queue_receiver.recv_async() returned a command.
\* Append pushes the task and sends it to the workers, awaiting room in the
\* bounded channel; Clear empties the Vec; Stop drops worker_sender and goes
\* on to drain the command channel.
Dispatch ==
    /\ IsQueue
    /\ proc.dispatcher = "recv"
    /\ proc.commands # <<>>
    /\ LET cmd == Head(proc.commands)
           p == [proc EXCEPT !.commands = Tail(@)]
       IN  CASE cmd.type = "Append" ->
                    LET q == [p EXCEPT !.tasks = Append(@, cmd.task)]
                    IN  IF HasRoom \/ ~ReceiversAlive
                        THEN ProcStep(SendToWorkers(q, cmd.task))
                        ELSE ProcStep([q EXCEPT !.dispatcher = "sending",
                                                !.pending = cmd.task])
              [] cmd.type = "Clear" -> ProcStep([p EXCEPT !.tasks = <<>>])
              [] cmd.type = "Stop" ->
                    ProcStep([p EXCEPT !.senders = 0, !.dispatcher = "draining"])

\* The background task: the pending send_async completes once a worker has
\* made room
DispatchSent ==
    /\ IsQueue
    /\ proc.dispatcher = "sending"
    /\ HasRoom \/ ~ReceiversAlive
    /\ ProcStep(SendToWorkers(proc, proc.pending))

\* while (queue_receiver.recv_async().await).is_ok() {}: the command is
\* received and dropped
Drain(cmd) == [proc EXCEPT !.commands = Tail(@)]

\* The background task after Stop: one more command received and discarded
DispatchDrain ==
    /\ IsQueue
    /\ proc.dispatcher = "draining"
    /\ proc.commands # <<>>
    /\ ProcStep(Drain(Head(proc.commands)))

\* The background task: recv_async() returned Err, every sender of the
\* command channel is gone and nothing is buffered; the task ends, and with
\* it worker_sender if it still held it
DispatchEnds ==
    /\ IsQueue
    /\ proc.dispatcher \in {"recv", "draining"}
    /\ proc.commands = <<>>
    /\ proc.queue_senders = 0
    /\ ProcStep([proc EXCEPT !.dispatcher = "ended", !.senders = 0])

\* Queue::join up to its first await: self.stop(), then WorkerPool::join
\* starts Worker::join on the first worker (drop(self.receiver))
QueueJoin ==
    /\ IsQueue
    /\ ~JoinCalled
    /\ ProcStep([QueueSend(StopQueue) EXCEPT !.joined = 1, !.receivers[1] = FALSE])

\* WorkerPool::join: the join of worker proc.joined returns and the next
\* worker is joined; after the last one Queue::join returns, which drops the
\* Queue and its queue_sender
QueueJoinNext ==
    /\ IsQueue
    /\ proc.joined \in Workers
    /\ ThreadEnded(proc.joined)
    /\ IF proc.joined < proc.n
       THEN ProcStep([proc EXCEPT !.joined = @ + 1, !.receivers[proc.joined + 1] = FALSE])
       ELSE ProcStep([proc EXCEPT !.joined = @ + 1, !.queue_senders = 0])

WorkerThreadStep(w) == WorkerRecv(w) \/ WorkerProcessed(w) \/ WorkerExit(w)
DispatcherStep == Dispatch \/ DispatchSent \/ DispatchDrain \/ DispatchEnds
JoinStep == WorkerJoinReturns \/ QueueJoinNext

ProcInit ==
    /\ proc \in {WorkerAlone} \cup {QueueNew(n) : n \in 1 .. MaxWorkers}
    /\ libcall = NoCall
    /\ NoServer

ProcNext ==
    \/ SendTask
    \/ CloneTx
    \/ DropTx
    \/ WorkerJoin
    \/ WorkerJoinReturns
    \/ QueueAppend
    \/ QueueClear
    \/ QueueStop
    \/ QueueJoin
    \/ QueueJoinNext
    \/ Dispatch
    \/ DispatchSent
    \/ DispatchDrain
    \/ DispatchEnds
    \/ \E w \in 1 .. MaxWorkers : WorkerRecv(w)
    \/ \E w \in 1 .. MaxWorkers : WorkerProcessed(w)
    \/ \E w \in 1 .. MaxWorkers : WorkerExit(w)

\* A Worker, or a Queue with its pool, used by one caller
ProcSpec == ProcInit /\ [][ProcNext]_vars

\* The worker threads are blocking threads of their own and task.process()
\* returns; the background task and the joining task are tokio tasks the
\* runtime polls when they can go on
ProcFairSpec ==
    /\ ProcSpec
    /\ \A w \in 1 .. MaxWorkers : WF_vars(WorkerThreadStep(w))
    /\ WF_vars(DispatcherStep)
    /\ WF_vars(JoinStep)

\* ------------------------------------------------------- server start-up
\* The lists of repository strings init_router passes to ServerState::new
RepoLists == UNION {[1 .. n -> RepoStrings] : n \in 0 .. MaxRepos}

\* Before ServerState::new is called: any list of repositories, any outcome of
\* the model loads, no executor and no request yet
BootInit ==
    /\ proc = NoProc
    /\ \E model_repos \in RepoLists :
          \E loads \in [1 .. Len(model_repos) -> BOOLEAN] :
              boot = [model_repos |-> model_repos, loads |-> loads, result |-> "none"]
    /\ serve = NotServing
    /\ libcall = NoCall
    /\ model_map = <<>>
    /\ queue = <<>>
    /\ handles = <<>>
    /\ worker = <<>>
    /\ inflight = <<>>
    /\ exit = <<>>
    /\ nextId = 1
    /\ requests = [r \in RequestIds |-> NoRequest]
    /\ oneshot = [r \in RequestIds |-> NoChan]
    /\ caller = [r \in RequestIds |-> "none"]
    /\ response = [r \in RequestIds |-> NoResponse]
    /\ accepted = <<>>
    /\ handled = <<>>
    /\ replied = <<>>
    /\ sendSaw = [r \in RequestIds |-> "unsent"]

\* init_router calls ServerState::new. Every executor the closure spawned is
\* running; the entries collect replaced are dropped, and with them the client
\* and the executor handle of the executors they named.
CallServerStateNew ==
    /\ boot.result = "none"
    /\ LET r == ServerStateNew(boot.model_repos, boot.loads)
           spawned == IF boot.model_repos = <<>> THEN {}
                      ELSE Spawned(boot.model_repos, boot.loads)
           kept == IF r.ok THEN {r.value[name] : name \in DOMAIN r.value} ELSE {}
       IN  /\ boot' = [boot EXCEPT !.result = IF r.ok THEN "Ok" ELSE "Err"]
           /\ model_map' = IF r.ok THEN r.value ELSE model_map
           /\ queue' = [e \in spawned |-> <<>>]
           /\ handles' = [e \in spawned |->
                             IF e \in kept THEN [clients |-> 1, executors |-> 1]
                             ELSE [clients |-> 0, executors |-> 0]]
           /\ worker' = [e \in spawned |-> "recv"]
           /\ inflight' = [e \in spawned |-> {}]
           /\ exit' = [e \in spawned |-> "none"]
           /\ accepted' = [e \in spawned |-> <<>>]
           /\ handled' = [e \in spawned |-> <<>>]
           /\ replied' = [e \in spawned |-> <<>>]
    /\ UNCHANGED <<serve, libcall, nextId, requests, oneshot, caller, response,
                   sendSaw, proc>>

BootNext == CallServerStateNew

BootSpec == BootInit /\ [][BootNext]_vars

\* ------------------------------------------------------------ vocabulary
IsPrefix(s, t) == Len(s) <= Len(t) /\ \A i \in 1 .. Len(s) : s[i] = t[i]
Count(s, x) == Cardinality({i \in 1 .. Len(s) : s[i] = x})
Last(s) == s[Len(s)]
InSeq(s, x) == \E i \in 1 .. Len(s) : s[i] = x

\* The executor a request with a known model is routed to
ExecutorOf(id) == model_map[requests[id].model]
Routed(id) == requests[id].model \in DOMAIN model_map

\* Client::send returned Ok(rx) for request id
Accepted(id) == oneshot[id].state # "none"

\* The reply of request id is on its channel or with its caller
Delivered(id) == oneshot[id].state = "sent" \/ response[id].status = StatusOk

\* The entry the worker was handling when the handler failed
FailedEntry(e) == Last(handled[e])
HandlerFailed(e) == exit[e] \in {"error", "panic"}

\* ------------------------------------------------------------------ claims

\* C1: on one executor the handler is called on requests in the order their
\* Append commands were enqueued, and replies are sent in that same order:
\* the handled tasks are a prefix of the accepted ones, and the replied tasks
\* a prefix of the handled ones.
C1_FifoOrder ==
    \A e \in ModelNames :
        /\ IsPrefix(handled[e], accepted[e])
        /\ IsPrefix(replied[e], handled[e])

\* Two requests were sent to one executor and both replies have been sent
C1_Witness == \E e \in ModelNames : Len(replied[e]) >= 2

\* C2: the value on a request's reply channel, and the body of its 200
\* response, is the handler's output for that same request.
C2_ReplyMatchesRequest ==
    \A id \in RequestIds :
        /\ oneshot[id].state = "sent" => oneshot[id].value = Handle(requests[id])
        /\ response[id].status = StatusOk => response[id].payload = Handle(requests[id])

\* Two requests with different inputs were queued on one executor together, and
\* both callers have their replies
C2_Witness ==
    \E i, j \in RequestIds :
        /\ i # j
        /\ requests[i].model = requests[j].model
        /\ requests[i].input # requests[j].input
        /\ response[i].status = StatusOk
        /\ response[j].status = StatusOk

\* C3: at most one handler call of an executor is in progress at any moment,
\* and it runs on the thread DedicatedExecutor::new spawned for that executor.
C3_SerialOnWorkerThread ==
    \A e \in ModelNames :
        /\ Cardinality(inflight[e]) <= 1
        /\ \A call \in inflight[e] : call.thread = WorkerThread(e)
        /\ (inflight[e] # {}) <=> (worker[e] = "handling")

\* A handler call is in progress while another request waits in the channel
C3_Witness ==
    \E e \in ModelNames :
        /\ inflight[e] # {}
        /\ QueuedIds(queue[e]) # {}

\* C5: the handler is called at most once per request and its reply is sent at
\* most once; a reply on the channel or a 200 response means exactly one
\* handler call and exactly one send for that request.
C5_ExactlyOnce ==
    \A id \in RequestIds :
        /\ \A e \in ModelNames :
              /\ Count(handled[e], id) <= 1
              /\ Count(replied[e], id) <= 1
              /\ InSeq(replied[e], id) => InSeq(handled[e], id)
              /\ InSeq(handled[e], id) => Routed(id) /\ ExecutorOf(id) = e
        /\ (oneshot[id].state = "sent" \/ response[id].status = StatusOk) =>
              /\ Count(handled[ExecutorOf(id)], id) = 1
              /\ Count(replied[ExecutorOf(id)], id) = 1

\* A caller has observed its reply while a later request is being served
C5_Witness ==
    \E id \in RequestIds, e \in ModelNames :
        /\ response[id].status = StatusOk
        /\ InSeq(replied[e], id)
        /\ Len(handled[e]) >= 2

\* C7: when the handler returns an error for a request, no reply is sent on
\* that request's channel, the channel is closed, and a caller that awaited it
\* got a receive failure, never a value.
C7_HandlerErrorClosesReply ==
    \A e \in ModelNames :
        exit[e] = "error" =>
            LET id == FailedEntry(e)
            IN  /\ ~InSeq(replied[e], id)
                /\ oneshot[id].state \in {"closed", "rx_dropped"}
                /\ caller[id] = "done" => response[id] = RecvErrorResponse

\* The handler returned an error and the awaiting caller has its response
C7_Witness ==
    \E e \in ModelNames :
        /\ exit[e] = "error"
        /\ caller[FailedEntry(e)] = "done"

\* C8: when the handler fails on a request with an inference error, the
\* response to that request has HTTP status 400.
C8_InferenceErrorIs400 ==
    \A e \in ModelNames :
        (exit[e] = "error" /\ caller[FailedEntry(e)] = "done") =>
            response[FailedEntry(e)].status = StatusBadRequest

\* The request's send failed: the command channel was closed at send time
SendFailed(id) == caller[id] = "done" /\ Routed(id) /\ ~Accepted(id)
\* The request's reply channel closed without a reply, and the caller saw it
ReplyFailed(id) == caller[id] = "done" /\ oneshot[id].state = "closed"

\* C9 as claimed: both transport failures answer 500 with the message
\* "Failed to receive response from executor".
C9_BothTransportFailuresSameMessage ==
    \A id \in RequestIds :
        (SendFailed(id) \/ ReplyFailed(id)) =>
            /\ response[id].status = StatusInternalServerError
            /\ response[id].message = FailedToReceive

\* C9 amended: both transport failures answer 500; a reply channel closed
\* without a reply carries "Failed to receive response from executor", a
\* command channel closed at send time carries the send error's own message.
C9_TransportFailures ==
    \A id \in RequestIds :
        /\ ReplyFailed(id) =>
              /\ response[id].status = StatusInternalServerError
              /\ response[id].message = FailedToReceive
        /\ SendFailed(id) =>
              /\ response[id].status = StatusInternalServerError
              /\ response[id].message = ChannelClosedMsg

\* Both transport failures have happened
C9_Witness ==
    \E i, j \in RequestIds : ReplyFailed(i) /\ SendFailed(j)

\* Request id was sent to an executor whose worker a handler panic had killed
SentAfterPanic(id) == sendSaw[id] = "panic"

\* C10 as claimed: after a handler panic has killed the worker, a later
\* Client.send succeeds and returns a receiver (which never gets a reply).
C10_SendSucceedsAfterPanic ==
    \A id \in RequestIds :
        SentAfterPanic(id) =>
            /\ Accepted(id)
            /\ ~Delivered(id)

\* C10 amended: after a handler panic has killed the worker, a later
\* Client.send fails: no reply channel is returned, nothing is enqueued or
\* handled, and the request is answered with the send error.
C10_SendFailsAfterPanic ==
    \A id \in RequestIds :
        SentAfterPanic(id) =>
            /\ caller[id] = "done"
            /\ ~Accepted(id)
            /\ ~InSeq(accepted[ExecutorOf(id)], id)
            /\ ~InSeq(handled[ExecutorOf(id)], id)
            /\ response[id] = SendErrorResponse

\* A request was sent to an executor after a panic killed its worker
C10_Witness ==
    \E id \in RequestIds :
        /\ SentAfterPanic(id)
        /\ caller[id] = "done"

\* ------------------------------------------------------- liveness claims
\* The stops, among the outcomes of a run, that the channel of e has seen
StopSent(e) == exit[e] = "stop" \/ QueuedStops(queue[e]) > 0

\* The receiver of request id has resolved, with the reply or a closed channel
Resolved(id) == oneshot[id].state \in {"sent", "closed"} \/ caller[id] = "done"

\* C4: when every handler call returns success and no Stop is sent, every
\* accepted request whose caller keeps awaiting eventually has its reply
\* delivered to its receiver.
C4_AcceptedIsReplied ==
    \A id \in RequestIds :
        (caller[id] = "awaiting") ~>
            \/ Delivered(id)
            \/ caller[id] = "aborted"
            \/ (Routed(id) /\ HandlerFailed(ExecutorOf(id)))
            \/ (Routed(id) /\ StopSent(ExecutorOf(id)))

\* A request accepted behind another one has its reply delivered, with no
\* handler failure and no Stop on its executor
C4_Witness ==
    \E id \in RequestIds :
        /\ Delivered(id)
        /\ Routed(id)
        /\ Len(accepted[ExecutorOf(id)]) >= 2
        /\ accepted[ExecutorOf(id)][2] = id
        /\ exit[ExecutorOf(id)] = "none"

\* C6: every reply receiver a caller keeps awaiting eventually resolves, with
\* the reply or with a closed channel, whichever way the worker leaves its
\* loop.
C6_ReceiverResolves ==
    \A id \in RequestIds :
        (caller[id] = "awaiting") ~> (Resolved(id) \/ caller[id] = "aborted")

\* An entry that was still buffered when the worker left its loop has
\* resolved with a closed channel, never handled
C6_Witness ==
    \E id \in RequestIds :
        /\ oneshot[id].state = "closed"
        /\ exit[ExecutorOf(id)] = "stop"
        /\ ~InSeq(handled[ExecutorOf(id)], id)

\* C11: the death of one executor's worker (handler error, panic or Stop)
\* leaves the other executors serving: a send to another executor is refused
\* only when that executor's own worker has left its loop, its replies are the
\* handler's output for its own requests, and every request it accepted while
\* or after the first worker died still has its reply delivered.
C11_OtherModelsKeepServing ==
    /\ [](\A id \in RequestIds :
             /\ SendFailed(id) => exit[ExecutorOf(id)] # "none"
             /\ (Routed(id) /\ Delivered(id)) =>
                    InSeq(replied[ExecutorOf(id)], id))
    /\ \A id \in RequestIds :
           (/\ caller[id] = "awaiting"
            /\ Routed(id)
            /\ \E dead \in ModelNames \ {ExecutorOf(id)} : worker[dead] = "exited") ~>
               \/ (Delivered(id) /\ oneshot[id].value = Handle(requests[id]))
               \/ response[id] = Response(StatusOk, "", Handle(requests[id]))
               \/ caller[id] = "aborted"
               \/ (Routed(id) /\ HandlerFailed(ExecutorOf(id)))
               \/ (Routed(id) /\ StopSent(ExecutorOf(id)))

\* A request found its executor's worker dead, and a later request to the
\* other executor was answered with its reply
C11_Witness ==
    \E i, j \in RequestIds :
        /\ i < j
        /\ sendSaw[i] \in {"error", "panic", "stop"}
        /\ Routed(j)
        /\ ExecutorOf(j) # ExecutorOf(i)
        /\ response[j] = Response(StatusOk, "", Handle(requests[j]))

\* The task ids accepted by executor e after task id
AcceptedAfter(e, id) ==
    {accepted[e][k] : k \in {n \in 1 .. Len(accepted[e]) :
                                \E m \in 1 .. n - 1 : accepted[e][m] = id}}

\* C12: a request whose reply receiver was dropped is neither cancelled nor
\* skipped, and does not stop the worker: while the worker runs the entry is
\* queued, in the handler or handled; no later request is handled before it;
\* its result is discarded; and the worker leaves its loop only for a Stop, a
\* closed channel or a failing handler, never for the reply it could not send.
C12_DroppedReceiverStillHandled ==
    \A id \in RequestIds :
        (caller[id] = "aborted") =>
            LET e == ExecutorOf(id)
            IN  /\ \/ id \in QueuedIds(queue[e])
                   \/ InSeq(handled[e], id)
                   \/ worker[e] = "exited"
                /\ \A later \in AcceptedAfter(e, id) :
                       InSeq(handled[e], later) => InSeq(handled[e], id)
                /\ oneshot[id].state = "rx_dropped"
                /\ response[id] = NoResponse
                /\ worker[e] = "exited" => exit[e] \in {"stop", "closed", "error", "panic"}
                /\ (InSeq(replied[e], id) /\ Len(handled[e]) = Len(replied[e])) =>
                       exit[e] \in {"none", "stop", "closed"}

\* The handler is running for a request whose receiver was dropped before its
\* reply was sent, and a request accepted after it waits in the channel
C12_Witness ==
    \E id \in RequestIds :
        /\ caller[id] = "aborted"
        /\ \E call \in inflight[ExecutorOf(id)] : call.id = id
        /\ AcceptedAfter(ExecutorOf(id), id) \cap QueuedIds(queue[ExecutorOf(id)]) # {}

\* The worker of e takes a Stop from its channel in this step
DequeuesStop(e) ==
    /\ worker[e] = "recv"
    /\ queue[e] # <<>>
    /\ Head(queue[e]).type = "Stop"
    /\ Len(queue'[e]) < Len(queue[e])

\* C13: the step that dequeues Stop ends the loop with every Append enqueued
\* before that Stop handled and replied, and no handler call cut short; the
\* commands enqueued after it are dropped unhandled, their reply channels
\* closed; and after that exit nothing is handled or enqueued any more, so a
\* further Stop, buffered or sent later, changes nothing.
C13_StopExitsCleanly ==
    /\ [](\A e \in ModelNames :
             exit[e] = "stop" =>
                 /\ worker[e] = "exited"
                 /\ inflight[e] = {}
                 /\ queue[e] = <<>>
                 /\ IsPrefix(handled[e], accepted[e])
                 /\ replied[e] = handled[e]
                 /\ \A k \in Len(handled[e]) + 1 .. Len(accepted[e]) :
                        /\ oneshot[accepted[e][k]].state \in {"closed", "rx_dropped"}
                        /\ response[accepted[e][k]].status # StatusOk)
    /\ [][\A e \in ModelNames :
             /\ DequeuesStop(e) =>
                    /\ exit'[e] = "stop"
                    /\ handled[e] = SubSeq(accepted[e], 1, Head(queue[e]).before)
                    /\ handled'[e] = handled[e]
             /\ exit[e] = "stop" =>
                    /\ handled'[e] = handled[e]
                    /\ replied'[e] = replied[e]
                    /\ accepted'[e] = accepted[e]
                    /\ queue'[e] = queue[e]
                    /\ worker'[e] = worker[e]
                    /\ exit'[e] = exit[e]]_vars

\* The worker left its loop on a Stop that had one request enqueued before it
\* and one after it: the first was handled and replied, the second was dropped
\* and its caller got the receive failure
C13_Witness ==
    \E e \in ModelNames :
        /\ exit[e] = "stop"
        /\ Len(handled[e]) = 1
        /\ Len(accepted[e]) = 2
        /\ response[accepted[e][1]].status = StatusOk
        /\ response[accepted[e][2]] = RecvErrorResponse

\* C14 as claimed: when every Client handle of an executor is dropped, and
\* stays so, its worker loop terminates.
C14_ClientsDroppedTerminates ==
    \A e \in ModelNames :
        <>[](handles[e].clients = 0) => <>(worker[e] = "exited")

\* C14 amended: once every sender of an executor's command channel is dropped,
\* the Client handles and the DedicatedExecutor handle alike, its worker loop
\* terminates; and the loop ends on a closed channel only then, with nothing
\* left buffered.
C14_SendersDroppedTerminates ==
    /\ [](\A e \in ModelNames :
             exit[e] = "closed" =>
                 /\ handles[e].clients = 0
                 /\ handles[e].executors = 0
                 /\ handled[e] = accepted[e])
    /\ \A e \in ModelNames :
           (handles[e].clients = 0 /\ handles[e].executors = 0) ~>
               (worker[e] = "exited")

\* The last sender was dropped with a request accepted, and the worker served
\* the request and then left its loop on the closed channel
C14_Witness ==
    \E e \in ModelNames :
        /\ exit[e] = "closed"
        /\ handles[e].clients = 0
        /\ handles[e].executors = 0
        /\ Len(replied[e]) >= 1

\* Client::send for request id found the command channel closed
SentOnClosedChannel(id) == sendSaw[id] \in {"stop", "closed", "error", "panic"}

\* C15: a Client::send that finds the command channel closed, whichever way
\* the worker left its loop, returns the error and no receiver: no reply
\* channel exists for the request, it is not enqueued and never handled, and
\* the caller is answered with the send error at once; a send that finds the
\* worker running is accepted.
C15_SendOnClosedChannelFails ==
    \A id \in RequestIds :
        /\ SentOnClosedChannel(id) =>
              /\ exit[ExecutorOf(id)] = sendSaw[id]
              /\ oneshot[id] = NoChan
              /\ caller[id] = "done"
              /\ response[id] = SendErrorResponse
              /\ \A e \in ModelNames :
                     /\ id \notin QueuedIds(queue[e])
                     /\ ~InSeq(accepted[e], id)
                     /\ ~InSeq(handled[e], id)
        /\ sendSaw[id] = "alive" =>
              /\ Accepted(id)
              /\ InSeq(accepted[ExecutorOf(id)], id)

\* A request was handled and replied, a Stop then ended the worker, and the
\* next request to that executor was refused
C15_Witness ==
    \E i, j \in RequestIds :
        /\ sendSaw[j] = "stop"
        /\ response[j] = SendErrorResponse
        /\ response[i].status = StatusOk
        /\ ExecutorOf(i) = ExecutorOf(j)

\* Request id has been received by infer_text_embeddings
Received(id) == id < nextId

\* C17: a request whose model is no key of the model map is answered 404
\* ModelNotFound at once, and no executor ever gets a command for it; a request
\* whose model is a key is sent through that key's client only: it is accepted,
\* queued and handled by that key's executor or by none.
C17_LookupRoutesOrNotFound ==
    \A id \in RequestIds :
        Received(id) =>
            IF requests[id].model \notin DOMAIN model_map
            THEN /\ response[id] = Response(StatusNotFound, "", NoPayload)
                 /\ caller[id] = "done"
                 /\ oneshot[id] = NoChan
                 /\ sendSaw[id] = "unsent"
                 /\ \A e \in ModelNames :
                        /\ id \notin QueuedIds(queue[e])
                        /\ ~InSeq(accepted[e], id)
                        /\ ~InSeq(handled[e], id)
            ELSE /\ response[id].status # StatusNotFound
                 /\ sendSaw[id] # "unsent"
                 /\ sendSaw[id] = "alive" =>
                        InSeq(accepted[model_map[requests[id].model]], id)
                 /\ \A e \in ModelNames \ {model_map[requests[id].model]} :
                        /\ id \notin QueuedIds(queue[e])
                        /\ ~InSeq(accepted[e], id)
                        /\ ~InSeq(handled[e], id)
                        /\ \A call \in inflight[e] : call.id # id

\* A request naming no key was answered 404 while a request naming a key
\* was handled by that key's executor
C17_Witness ==
    \E i, j \in RequestIds :
        /\ Received(i)
        /\ requests[i].model = UnknownModel
        /\ response[i].status = StatusNotFound
        /\ Received(j)
        /\ requests[j].model \in DOMAIN model_map
        /\ InSeq(handled[model_map[requests[j].model]], j)

\* Request id is a request to /v1/embeddings
IsEmbeddings(id) == Received(id) /\ "input" \in DOMAIN requests[id]

\* C16: a send that finds the worker running is accepted whatever the channel
\* already holds; a request is refused with 500 only when the worker of its
\* executor has left its loop; and no request on any route is answered with
\* 429: the responses are 200, 404 and 500.
C16_NoAdmissionControl ==
    \A id \in RequestIds :
        /\ response[id].status # StatusTooManyRequests
        /\ \/ response[id] = NoResponse
           \/ response[id].status \in {StatusOk, StatusNotFound, StatusInternalServerError}
        /\ (IsEmbeddings(id) /\ sendSaw[id] = "alive") =>
               /\ Accepted(id)
               /\ InSeq(accepted[ExecutorOf(id)], id)
        /\ response[id].status = StatusInternalServerError =>
               /\ IsEmbeddings(id)
               /\ worker[ExecutorOf(id)] = "exited"

\* A request was accepted into a channel that already held three commands
C16_Witness ==
    \E e \in ModelNames :
        /\ ReceiverAlive(e)
        /\ Len(queue[e]) = 4
        /\ Last(queue[e]).type = "Append"
        /\ sendSaw[Last(queue[e]).id] = "alive"

\* The repositories of the list that parse and whose model loads
Good == {k \in 1 .. Len(boot.model_repos) :
            ParseRepoString(boot.model_repos[k]).ok /\ boot.loads[k]}

\* The name parse_repo_string derives for the k-th repository
DerivedName(k) == ParseRepoString(boot.model_repos[k]).value[1]

\* C18: ServerState::new returns an error exactly for the empty list; for a
\* non-empty list it returns a map whose keys are the derived names of the
\* repositories that parsed and loaded, each naming an executor built for a
\* repository of that name, and no entry stands for a repository that failed.
C18_NewSkipsFailedRepos ==
    boot.result # "none" =>
        /\ boot.result = "Err" <=> boot.model_repos = <<>>
        /\ boot.result = "Ok" =>
               /\ DOMAIN model_map = {DerivedName(k) : k \in Good}
               /\ \A name \in DOMAIN model_map :
                      /\ model_map[name] \in Good
                      /\ DerivedName(model_map[name]) = name
               /\ DOMAIN worker = Good

\* A list of two repositories, the first of which fails to parse, gave a map
\* with the second one only
C18_Witness ==
    /\ boot.result = "Ok"
    /\ Len(boot.model_repos) = 2
    /\ ~ParseRepoString(boot.model_repos[1]).ok
    /\ DOMAIN model_map = {"b"}
    /\ model_map["b"] = 2

\* C19: when several repositories of the list derive one name, the map has
\* one entry for that name and it holds the client and the executor built for
\* the last of them; the executors built for the earlier ones are left without
\* any sender.
C19_LastDuplicateWins ==
    boot.result = "Ok" =>
        /\ Cardinality(DOMAIN model_map) = Cardinality({DerivedName(k) : k \in Good})
        /\ \A k \in Good :
               LET e == model_map[DerivedName(k)]
               IN  /\ e >= k
                   /\ \A j \in Good : DerivedName(j) = DerivedName(k) => j <= e
                   /\ handles[e] = [clients |-> 1, executors |-> 1]
                   /\ k # e => handles[k] = [clients |-> 0, executors |-> 0]

\* The list [a, a] gave a map with the single entry a, the second executor
C19_Witness ==
    /\ boot.result = "Ok"
    /\ boot.model_repos = <<<<"a">>, <<"a">>>>
    /\ DOMAIN model_map = {"a"}
    /\ model_map["a"] = 2
    /\ handles[1] = [clients |-> 0, executors |-> 0]

\* Request id is a request to the named route other than /v1/embeddings
IsRoute(id, route) ==
    /\ Received(id)
    /\ "route" \in DOMAIN requests[id]
    /\ requests[id].route = route

\* C20: once the server is serving, no step of any request handler (embeddings,
\* model listing, model lookup, health) and no step of any executor (reply,
\* handler error or panic, Stop, worker exit) changes the model map: its keys
\* and the executor each key names stay what ServerState::new returned.
C20_ModelMapReadOnly ==
    /\ [](DOMAIN model_map = ModelNames)
    /\ [][model_map' = model_map]_vars

\* An embeddings request was replied, a model lookup was answered and a
\* worker has left its loop, with the map as it was built
C20_Witness ==
    /\ \E i, j \in RequestIds :
          /\ IsEmbeddings(i)
          /\ response[i].status = StatusOk
          /\ IsRoute(j, "get_model")
          /\ response[j].status = StatusOk
    /\ \E e \in ModelNames : worker[e] = "exited"
    /\ model_map = [m \in ModelNames |-> m]

\* The ids of the cards of a ModelCardList payload
CardIds(payload) == {payload.data[k].id : k \in DOMAIN payload.data}

\* C21: GET /v1/models answers 200 with exactly one ModelCard per key of the
\* model map, its id the key; GET /v1/models/{id} answers 200 with the card of
\* that id when the id of the path is a key of the map, and 404 otherwise.
C21_CatalogByKey ==
    \A id \in RequestIds :
        /\ IsRoute(id, "list_models") =>
              /\ response[id].status = StatusOk
              /\ Len(response[id].payload.data) = Cardinality(DOMAIN model_map)
              /\ CardIds(response[id].payload) = DOMAIN model_map
        /\ IsRoute(id, "get_model") =>
              IF requests[id].model \in DOMAIN model_map
              THEN /\ response[id].status = StatusOk
                   /\ response[id].payload = ModelCard(requests[id].model)
              ELSE response[id].status = StatusNotFound

\* The sentence at position k (from 0) of a request's input, read off the
\* input's own shape
SentenceAt(input, k) == IF input.kind = "Single" THEN input.s ELSE input.vec[k + 1]
SentenceCount(input) == IF input.kind = "Single" THEN 1 ELSE Len(input.vec)

\* C22: the 200 response of an embeddings request whose input holds N
\* sentences (one for a single string, the elements in order for a list) has
\* exactly N data items, item k carrying index k and the row of sentence k for
\* k = 0 .. N-1, and its model field is the request's model field.
C22_OneIndexedRowPerSentence ==
    \A id \in RequestIds :
        (IsEmbeddings(id) /\ response[id].status = StatusOk) =>
            LET input == requests[id].input
                data == response[id].payload.data
            IN  /\ Len(data) = SentenceCount(input)
                /\ \A k \in 0 .. SentenceCount(input) - 1 :
                      /\ data[k + 1].index = k
                      /\ data[k + 1].embedding = Embedding(SentenceAt(input, k))
                /\ response[id].payload.model = requests[id].model

\* A list of two sentences and a single string were both answered 200
C22_Witness ==
    \E i, j \in RequestIds :
        /\ IsEmbeddings(i) /\ IsEmbeddings(j)
        /\ response[i].status = StatusOk /\ response[j].status = StatusOk
        /\ requests[i].input.kind = "Multiple"
        /\ Len(response[i].payload.data) = 2
        /\ requests[j].input.kind = "Single"

\* C23: every item of the data of an embeddings 200 response carries the
\* object value "embedding", and the response itself carries object "list".
C23_ObjectConstants ==
    \A id \in RequestIds :
        (IsEmbeddings(id) /\ response[id].status = StatusOk) =>
            /\ response[id].payload.object = "list"
            /\ \A k \in DOMAIN response[id].payload.data :
                  response[id].payload.data[k].object = "embedding"

\* C24: a shutdown signal (SIGINT or SIGTERM) that arrives while requests are
\* in flight stops the intake of new requests; every request then in flight
\* still gets the response it gets without a shutdown, 200 with the worker's
\* reply when the worker replied; and serve returns only when each of them has
\* been answered (or was given up by its own client or timeout): the shutdown
\* drops none.
C24_GracefulShutdown ==
    /\ serve.state # "serving" => nextId = serve.at
    /\ \A id \in serve.pending :
          /\ serve.state = "returned" => caller[id] \in {"done", "aborted"}
          /\ (caller[id] = "done" /\ oneshot[id].state = "sent") =>
                response[id] = Response(StatusOk, "", oneshot[id].value)
          /\ (caller[id] = "done" /\ oneshot[id].state = "closed") =>
                response[id] = RecvErrorResponse

\* serve has returned after a signal that found a request in flight, and that
\* request was answered 200
C24_Witness ==
    /\ serve.state = "returned"
    /\ \E id \in serve.pending :
          /\ response[id].status = StatusOk
          /\ \E e \in ModelNames :
                \E k \in DOMAIN replied[e] : replied[e][k] = id

\* The call of parse_repo_string has returned
Parsed == libcall.fn = "parse_repo_string" /\ libcall.returned

\* The call returned Ok with this repository id and revision
ParsedAs(repo_id, revision) ==
    /\ libcall.result.ok
    /\ libcall.result.value[1] = repo_id
    /\ libcall.result.value[2] = revision

\* C25: for every id, parse_repo_string gives repository id "id" and revision
\* "main" on the strings "id" and "id:", and repository id "id" and revision
\* "rev" on "id:rev".
C25_RevisionDefaultsToMain ==
    Parsed =>
        LET s == libcall.args
        IN  /\ (Len(s) = 1 /\ s[1] \in Names) => ParsedAs(s[1], "main")
            /\ (Len(s) = 2 /\ s[1] \in Names /\ s[2] = Colon) =>
                  ParsedAs(s[1], "main")
            /\ (Len(s) = 3 /\ s[1] \in Names /\ s[2] = Colon /\ s[3] \in Names) =>
                  ParsedAs(s[1], s[3])

\* "a:" was parsed to ("a", "main")
C25_Witness ==
    /\ Parsed
    /\ libcall.args = <<"a", Colon>>
    /\ ParsedAs("a", "main")

\* C26: parse_repo_string fails on the empty string and on every string with
\* one of \ < > | ? * at any position: in the id, the revision or a later part.
C26_IllegalCharsRejected ==
    (/\ Parsed
     /\ \/ libcall.args = <<>>
        \/ \E i \in 1 .. Len(libcall.args) : libcall.args[i] \in IllegalChars)
        => ~libcall.result.ok

\* A string whose only illegal character stands after the second colon was
\* rejected
C26_Witness ==
    /\ Parsed
    /\ libcall.args = <<"a", Colon, Colon, "*">>
    /\ ~libcall.result.ok

\* C27: every successful parse yields a non-empty repository id and a
\* non-empty revision; a string that starts with a colon, as ":rev", yields no
\* empty repository id.
C27_ParsedPartsNonEmpty ==
    (Parsed /\ libcall.result.ok) =>
        /\ libcall.result.value[1] # ""
        /\ libcall.result.value[2] # ""

\* The call of parse_config has returned
ConfigParsed == libcall.fn = "parse_config" /\ libcall.returned

\* The architectures parse_config knows, and the variant each stands for
KnownArchitectures == {"BertModel", "JinaBertForMaskedLM", "DistilBertForMaskedLM"}
VariantOf(arch) ==
    CASE arch = "BertModel" -> "Bert"
      [] arch = "JinaBertForMaskedLM" -> "JinaBert"
      [] arch = "DistilBertForMaskedLM" -> "DistilBert"

\* C28, as claimed: parsing a config whose architectures list has exactly one
\* entry succeeds iff that entry is a known variant; it fails for the empty
\* list and for every list of more than one entry.
C28_OneKnownArchitecture ==
    (ConfigParsed /\ libcall.args.architectures.some) =>
        LET arch == libcall.args.architectures.value
        IN  IF Len(arch) = 1
            THEN libcall.result.ok <=> arch[1] \in KnownArchitectures
            ELSE ~libcall.result.ok

\* C28, amended: parsing a config whose architectures list has exactly one
\* entry succeeds iff that entry is a known variant and the config
\* deserializes into that variant's configuration, and then yields that
\* variant; it fails for the empty list and for every list of more than one
\* entry.
C28_OneKnownArchitectureThatDeserializes ==
    (ConfigParsed /\ libcall.args.architectures.some) =>
        LET arch == libcall.args.architectures.value
        IN  IF Len(arch) = 1
            THEN /\ libcall.result.ok <=>
                        /\ arch[1] \in KnownArchitectures
                        /\ VariantOf(arch[1]) \in libcall.args.deserializes
                 /\ libcall.result.ok => libcall.result.value = VariantOf(arch[1])
            ELSE ~libcall.result.ok

\* A config of two known architectures, that deserializes into either's
\* configuration, was rejected; so was one with an empty list
C28_Witness ==
    /\ ConfigParsed
    /\ libcall.args.architectures = Some(<<"BertModel", "DistilBertForMaskedLM">>)
    /\ libcall.args.deserializes = Variants
    /\ ~libcall.result.ok

\* The call of get_backend_model_type has returned
BackendResolved == libcall.fn = "get_backend_model_type" /\ libcall.returned

\* The call returned Ok(model_type); it returned the error err
ResolvedTo(model_type) == libcall.result.ok /\ libcall.result.value = model_type
FailedWith(err) == ~libcall.result.ok /\ libcall.result.value = err

\* Some architecture of the call's config ends with suffix
AnyArchEndsWith(suffix) ==
    \E k \in DOMAIN libcall.args.config.architectures :
        EndsWith(libcall.args.config.architectures[k], suffix)

\* C29: for a model that is neither Splade nor a classifier, pooling resolves
\* by explicit argument > pooling config file > error: an explicit strategy
\* gives Embedding(explicit) whatever the pooling config says; with none, a
\* pooling config gives Cls if pooling_mode_cls_token is set, else Mean if
\* pooling_mode_mean_tokens is set, else an error; with neither, the error
\* NoPoolingConfiguration.
C29_PoolingPrecedence ==
    (/\ BackendResolved
     /\ libcall.args.pooling # Some("Splade")
     /\ ~AnyArchEndsWith("Classification")) =>
        LET explicit == libcall.args.pooling
            file == libcall.args.pooling_config_path
        IN  /\ explicit.some => ResolvedTo(EmbeddingType(explicit.value))
            /\ (~explicit.some /\ file.some) =>
                  IF file.value.pooling_mode_cls_token
                  THEN ResolvedTo(EmbeddingType("Cls"))
                  ELSE IF file.value.pooling_mode_mean_tokens
                  THEN ResolvedTo(EmbeddingType("Mean"))
                  ELSE ~libcall.result.ok
            /\ (~explicit.some /\ ~file.some) =>
                  FailedWith("NoPoolingConfiguration")

\* An explicit Mean went before a pooling config that says Cls
C29_Witness ==
    /\ BackendResolved
    /\ libcall.args.pooling = Some("Mean")
    /\ libcall.args.pooling_config_path.some
    /\ libcall.args.pooling_config_path.value.pooling_mode_cls_token
    /\ libcall.args.config.architectures = <<"BertModel">>
    /\ ResolvedTo(EmbeddingType("Mean"))

\* C30: with the explicit strategy Splade and some architecture ending with
\* "MaskedLM" the result is Embedding(Splade), for every architectures list
\* and every order of its entries; Embedding(Splade) is the result in no other
\* case; and explicit Splade with no MaskedLM and no Classification
\* architecture is a ModelLoad error.
C30_SpladeNeedsMaskedLM ==
    BackendResolved =>
        LET splade == libcall.args.pooling = Some("Splade")
        IN  /\ (splade /\ AnyArchEndsWith("MaskedLM")) =>
                  ResolvedTo(EmbeddingType("Splade"))
            /\ ResolvedTo(EmbeddingType("Splade")) =>
                  (splade /\ AnyArchEndsWith("MaskedLM"))
            /\ (splade /\ ~AnyArchEndsWith("MaskedLM")
                       /\ ~AnyArchEndsWith("Classification")) =>
                  FailedWith("ModelLoad")

\* C31: when the Splade/MaskedLM rule does not apply and some architecture
\* ends with "Classification", the resolved ModelType is Classifier, with an
\* explicit pooling strategy (then ignored) and with none.
C31_ClassifierWhateverPooling ==
    (/\ BackendResolved
     /\ ~(libcall.args.pooling = Some("Splade") /\ AnyArchEndsWith("MaskedLM"))
     /\ AnyArchEndsWith("Classification")) =>
        ResolvedTo(Classifier)

\* The call of ModelRepo::file_paths has returned
FilesResolved == libcall.fn = "file_paths" /\ libcall.returned

\* C32: file_paths on a local directory, for every combination of present
\* files: it fails with "Repository misses configuration files" if config.json
\* or tokenizer.json is absent; otherwise with "Repository doesn't contain
\* model weights" if neither weight file exists; otherwise it returns the
\* Safetensors variant whenever model.safetensors exists and the Pth variant
\* only when just pytorch_model.bin exists; the pooling path is in the result
\* iff 1_Pooling/config.json exists, and its absence is no failure.
C32_FilePathsByPresence ==
    FilesResolved =>
        LET dir == libcall.args
            r == libcall.result
        IN  IF ~({"config.json", "tokenizer.json"} \subseteq dir)
            THEN ~r.ok /\ r.value = "Repository misses configuration files."
            ELSE IF "model.safetensors" \notin dir /\ "pytorch_model.bin" \notin dir
            THEN ~r.ok /\ r.value = "Repository doesn't contain model weights."
            ELSE /\ r.ok
                 /\ r.value.model_weights.kind =
                       (IF "model.safetensors" \in dir THEN "Safetensors" ELSE "Pth")
                 /\ r.value.model_weights.path =
                       (IF "model.safetensors" \in dir
                        THEN "model.safetensors" ELSE "pytorch_model.bin")
                 /\ r.value.pooling_config.some <=> "1_Pooling/config.json" \in dir

\* A directory with both weight files and no pooling config resolved to the
\* Safetensors variant without a pooling path
C32_Witness ==
    /\ FilesResolved
    /\ libcall.args =
          {"config.json", "tokenizer.json", "model.safetensors", "pytorch_model.bin"}
    /\ libcall.result.ok
    /\ libcall.result.value.model_weights.kind = "Safetensors"
    /\ ~libcall.result.value.pooling_config.some

\* The call of encode_batch_with_usage has ended, by a return or by a panic,
\* after the token rows were stacked
BatchEncoded ==
    /\ libcall.fn = "encode_batch_with_usage"
    /\ libcall.returned \/ Unwinding
    /\ Stack(libcall.args.tokens).ok

\* C33: encode_batch_with_usage on a model whose ModelType is
\* Embedding(Splade) ends by returning an InferenceError to its caller: an
\* error result, not a panic of the calling thread.
C33_SpladeReturnsInferenceError ==
    (BatchEncoded /\ libcall.args.model_type = EmbeddingType("Splade")) =>
        /\ ~Unwinding
        /\ libcall.returned
        /\ FailedWith("InferenceError")

\* The call of encode on the DistilBert model has returned what forward gave
DistilBertEncoded ==
    /\ libcall.fn = "encode"
    /\ libcall.args.model = "DistilBertModel"
    /\ libcall.returned
    /\ libcall.result.ok

\* C37: DistilBert encode, for token_ids of shape N x L, forwards token_ids
\* with a mask that is an L x L matrix, L the token sequence length whatever
\* the batch size N, where mask[i][j] = 1 iff j > i.
C37_DistilBertMaskBySequenceLength ==
    DistilBertEncoded =>
        LET L == Len(libcall.args.token_ids[1])
            forwarded == libcall.result.value
        IN  /\ forwarded.token_ids = libcall.args.token_ids
            /\ Len(forwarded.mask) = L
            /\ \A i \in 1 .. L :
                  /\ Len(forwarded.mask[i]) = L
                  /\ \A j \in 1 .. L : forwarded.mask[i][j] = 1 <=> j > i

\* C34: after the first handler error on an executor the worker loop has
\* exited and handles no further command: the entries queued at that moment
\* are dropped without a handler call and without a reply, every later
\* Client::send on that executor fails, and the worker is never restarted.
C34_HandlerErrorEndsExecutor ==
    /\ [](\A e \in ModelNames :
             exit[e] = "error" =>
                 /\ worker[e] = "exited"
                 /\ inflight[e] = {}
                 /\ queue[e] = <<>>
                 /\ IsPrefix(handled[e], accepted[e])
                 /\ replied[e] = SubSeq(handled[e], 1, Len(handled[e]) - 1)
                 /\ \A k \in Len(handled[e]) + 1 .. Len(accepted[e]) :
                        /\ oneshot[accepted[e][k]].state \in {"closed", "rx_dropped"}
                        /\ response[accepted[e][k]].status # StatusOk)
    /\ [](\A id \in RequestIds :
             sendSaw[id] = "error" =>
                 /\ ~Accepted(id)
                 /\ caller[id] = "done"
                 /\ response[id] = SendErrorResponse)
    /\ [][\A e \in ModelNames :
             exit[e] = "error" =>
                 /\ handled'[e] = handled[e]
                 /\ replied'[e] = replied[e]
                 /\ accepted'[e] = accepted[e]
                 /\ queue'[e] = queue[e]
                 /\ worker'[e] = worker[e]
                 /\ exit'[e] = exit[e]]_vars

\* The handler failed on the first of two accepted requests: the second was
\* still queued, was never handled, and its caller got the receive failure
C34_Witness ==
    \E e \in ModelNames :
        /\ exit[e] = "error"
        /\ Len(accepted[e]) = 2
        /\ handled[e] = <<accepted[e][1]>>
        /\ replied[e] = <<>>
        /\ response[accepted[e][2]] = RecvErrorResponse

\* C35: closing the command channel discards no accepted request. A worker
\* that left its loop on the closed channel has handled every accepted entry,
\* in the order of acceptance, and sent each reply; and once the last sender
\* is dropped with entries queued, an entry leaves the queue only by being
\* handled, first in first out, unless a Stop or a failing handler ends the
\* loop.
C35_ClosingDiscardsNothing ==
    /\ [](\A e \in ModelNames :
             exit[e] = "closed" =>
                 /\ queue[e] = <<>>
                 /\ inflight[e] = {}
                 /\ handled[e] = accepted[e]
                 /\ replied[e] = accepted[e]
                 /\ \A k \in 1 .. Len(accepted[e]) :
                        oneshot[accepted[e][k]].state \in {"sent", "rx_dropped"})
    /\ [][\A e \in ModelNames :
             (ChannelClosed(e) /\ queue[e] # <<>> /\ queue'[e] # queue[e]) =>
                 \/ /\ Head(queue[e]).type = "Append"
                    /\ queue'[e] = Tail(queue[e])
                    /\ handled'[e] = Append(handled[e], Head(queue[e]).id)
                 \/ exit'[e] \in {"stop", "error", "panic"}]_vars

\* Every sender was dropped and the worker, having served both accepted
\* requests, left its loop on the closed channel; both callers have a reply
C35_Witness ==
    \E e \in ModelNames :
        /\ exit[e] = "closed"
        /\ Len(replied[e]) = 2
        /\ \A k \in 1 .. 2 : response[accepted[e][k]].status = StatusOk

\* C36: a step that clones a Client or drops a clone sends no command on the
\* executor's channel, does not stop its worker, and closes no reply channel,
\* so no request sent through a remaining handle loses its reply by it.
C36_CloneAndDropAreSilent ==
    [][\A e \in ModelNames :
          handles'[e].clients # handles[e].clients =>
              /\ queue'[e] = queue[e]
              /\ worker'[e] = worker[e]
              /\ exit'[e] = exit[e]
              /\ oneshot' = oneshot]_vars

\* The place of the first Stop among the commands sent to the Queue, or one
\* past the last command if no Stop was sent
FirstStop ==
    IF \E k \in 1 .. Len(proc.log) : proc.log[k].type = "Stop"
    THEN CHOOSE k \in 1 .. Len(proc.log) :
             /\ proc.log[k].type = "Stop"
             /\ \A j \in 1 .. k - 1 : proc.log[j].type # "Stop"
    ELSE Len(proc.log) + 1

\* The tasks appended before the first Stop, and those appended after it
AppendedBeforeStop ==
    {proc.log[k].task : k \in {j \in 1 .. Len(proc.log) :
                                  j < FirstStop /\ proc.log[j].type = "Append"}}
AppendedAfterStop ==
    {proc.log[k].task : k \in {j \in 1 .. Len(proc.log) :
                                  j > FirstStop /\ proc.log[j].type = "Append"}}

\* How often task t was taken by a worker; how often its processing ended
TimesStarted(t) == Cardinality({k \in 1 .. Len(proc.started) : proc.started[k].task = t})
TimesProcessed(t) ==
    Cardinality({k \in 1 .. Len(proc.processed) : proc.processed[k].task = t})

\* C38: for the worker-pool Queue, join after any appends terminates, and by
\* the time it returns every task appended before it (before the first Stop,
\* which join itself sends if nobody did) has been processed by exactly one
\* worker of the pool; a command that reaches the queue after Stop is
\* discarded and its task is never forwarded to a worker.
C38_JoinProcessesAllOnce ==
    /\ [](IsQueue =>
             /\ \A t \in 1 .. proc.made : TimesStarted(t) <= 1
             /\ \A k \in 1 .. Len(proc.started) : proc.started[k].worker \in Workers
             /\ \A t \in AppendedAfterStop :
                    /\ TimesStarted(t) = 0
                    /\ proc.pending # t
                    /\ \A k \in 1 .. Len(proc.channel) : proc.channel[k] # t
             /\ JoinReturned =>
                    \A t \in AppendedBeforeStop : TimesProcessed(t) = 1)
    /\ (IsQueue /\ JoinCalled) ~> JoinReturned

\* join has returned on a pool of two workers after two appends and nothing
\* else: each worker processed one of the two tasks
C38_Witness ==
    /\ IsQueue
    /\ JoinReturned
    /\ proc.n = 2
    /\ proc.log = <<AppendTask(1), AppendTask(2), StopQueue>>
    /\ {proc.processed[k].task : k \in 1 .. Len(proc.processed)} = {1, 2}
    /\ {proc.processed[k].worker : k \in 1 .. Len(proc.processed)} = {1, 2}

\* C39: a Worker processes the tasks sent on its channel one at a time in the
\* order they were sent; Worker::join returns only when every sender of the
\* channel is dropped and every task sent has been processed, and once join
\* is called and the senders are dropped it does return.
C39_WorkerInOrderJoinAfterSenders ==
    /\ [](IsWorker =>
             /\ \A k \in 1 .. Len(proc.started) : proc.started[k].task = k
             /\ \A k \in 1 .. Len(proc.processed) : proc.processed[k].task = k
             /\ Len(proc.started) - Len(proc.processed) \in {0, 1}
             /\ JoinReturned =>
                    /\ proc.senders = 0
                    /\ Len(proc.processed) = proc.made)
    /\ (IsWorker /\ JoinCalled /\ proc.senders = 0) ~> JoinReturned

\* Two tasks were sent, the sender was dropped, and join returned after the
\* worker had processed both
C39_Witness ==
    /\ IsWorker
    /\ JoinReturned
    /\ proc.made = 2
    /\ Len(proc.processed) = 2

====
